---- MODULE Spec2Model ----
(***************************************************************************)
(* apt-cache-proxy: the fetch-and-cache engine of services/cache_manager.py *)
(* (mirror failover, tee to a temp file, publish by rename, blacklist,      *)
(* retention sweep, admin delete) as a state machine over a small POSIX     *)
(* file system: directory entries map paths to inodes, an open file keeps   *)
(* its inode and its own offset, rename and unlink act on directory entries.*)
(***************************************************************************)
EXTENDS Integers, Sequences, FiniteSets, TLC

(* ------------------------------- bounds -------------------------------- *)
NumMirrors == 2      \* mirrors configured for the upstream key
BodyLen == 2         \* chunks (of 1 MiB) in an upstream body
MaxTick == 2         \* clock ticks (days) that pass while a sweep runs
MaxLines == 5        \* lines in a Packages file

(* -------------------------- program constants -------------------------- *)
DefaultCacheDays == 7
Limit == 20

\* 10 * 1024 * 1024 bytes, in chunks of 1024 * 1024
TenMiB == 10

MAX_LOG_BUFFER == 100

(* time is counted in days; Epoch is the clock at the start of a behaviour *)
Epoch == 10

(* ------------------------------ strings -------------------------------- *)
(* A string is a sequence of one-character strings.                        *)
Lower(c) ==
    CASE c = "D" -> "d" [] c = "O" -> "o" [] c = "C" -> "c"
      [] c = "E" -> "e" [] c = "B" -> "b" [] c = "V" -> "v"
      [] c = "H" -> "h" [] c = "T" -> "t" [] c = "M" -> "m"
      [] c = "P" -> "p" [] OTHER -> c

LowerStr(s) == [i \in 1..Len(s) |-> Lower(s[i])]

\* the sequence a begins the sequence b
IsPrefix(a, b) == Len(a) <= Len(b) /\ SubSeq(b, 1, Len(a)) = a

\* str.startswith
StartsWith(s, p) == Len(p) <= Len(s) /\ SubSeq(s, 1, Len(p)) = p

\* `a in b` for strings: substring containment
Contains(b, a) ==
    \E i \in 0..(Len(b) - Len(a)) : SubSeq(b, i + 1, i + Len(a)) = a

\* str.rfind('.') as a 1-based index, 0 when there is none
LastDot(s) ==
    IF \E i \in 1..Len(s) : s[i] = "."
    THEN CHOOSE i \in 1..Len(s) : s[i] = "." /\ \A j \in (i+1)..Len(s) : s[j] # "."
    ELSE 0

(* -------------------------- request paths ------------------------------ *)
SegPool == <<"p">>
NameHello == <<"h", ".", "d", "e", "b">>
NameDoc == <<"v", "-", "d", "o", "c", ".", "d", "e", "b">>

\* request paths, as sequences of '/'-separated segments
PathHello == <<SegPool, NameHello>>
PathDoc == <<SegPool, NameDoc>>

\* "pool/", a path with an empty final segment
PathPool == <<SegPool, <<>>>>

\* "dists/Packages", the index of a suite
SegDists == <<"d">>
NamePackages == <<"P", "a", "c", "k", "a", "g", "e", "s">>
PathPackages == <<SegDists, NamePackages>>

\* "pool/h.tmp" and "pool/h": a basename that ends in ".tmp", and one with
\* no extension
NameTmp == <<"h", ".", "t", "m", "p">>
PathTmp == <<SegPool, NameTmp>>
PathBare == <<SegPool, <<"h">>>>

RequestPaths == {PathHello, PathDoc}
Debian == <<"d", "e", "b">>
Distros == {Debian}
Fingerprints == [distro : Distros, path : RequestPaths]

\* CONFIG['storage_path_resolved'], "/s", as its segments
StorageSegs == << <<"s">> >>

(* ------------------------------ pathlib -------------------------------- *)
\* str.split('/')
RECURSIVE SplitSlash(_)
SplitSlash(str) ==
    IF str = <<>> THEN << <<>> >>
    ELSE LET rest == SplitSlash(Tail(str))
         IN IF Head(str) = "/" THEN << <<>> >> \o rest
            ELSE << <<Head(str)>> \o rest[1] >> \o Tail(rest)

\* the segments pathlib keeps of a path string: empty ones and "." are
\* dropped, ".." is kept
RECURSIVE KeptSegs(_)
KeptSegs(segs) ==
    IF segs = <<>> THEN <<>>
    ELSE IF Head(segs) = <<>> \/ Head(segs) = <<".">> THEN KeptSegs(Tail(segs))
    ELSE <<Head(segs)>> \o KeptSegs(Tail(segs))

IsAbsolute(str) == Len(str) > 0 /\ str[1] = "/"

\* Path(storage_path_str) / rel_path: an absolute rel_path replaces the base
PathJoin(base_segs, rel) ==
    IF IsAbsolute(rel) THEN KeptSegs(SplitSlash(rel))
    ELSE base_segs \o KeptSegs(SplitSlash(rel))

\* the segments of an absolute path with every ".." applied
RECURSIVE Normal(_, _)
Normal(segs, at) ==
    IF segs = <<>> THEN at
    ELSE IF Head(segs) = <<".", ".">>
         THEN Normal(Tail(segs), IF at = <<>> THEN at ELSE SubSeq(at, 1, Len(at) - 1))
         ELSE Normal(Tail(segs), Append(at, Head(segs)))

\* hashlib.md5(path).hexdigest(), cut to its first four hex digits
\* (052c025b... for "pool/h.deb", 2e6e6707... for "pool/v-doc.deb",
\* cb9e5f3f... for "pool/", d083a16d... for "dists/Packages",
\* 03272f27... for "pool/h.tmp", 67472c9e... for "pool/h")
Md5(path) ==
    CASE path = PathHello -> <<"0", "5", "2", "c">>
      [] path = PathDoc -> <<"2", "e", "6", "e">>
      [] path = PathPool -> <<"c", "b", "9", "e">>
      [] path = PathPackages -> <<"d", "0", "8", "3">>
      [] path = PathTmp -> <<"0", "3", "2", "7">>
      [] path = PathBare -> <<"6", "7", "4", "7">>

\* os.path.basename(path)
Basename(path) == IF Len(path) = 0 THEN <<>> ELSE path[Len(path)]

\* A file path is [dir |-> segments from "/", name |-> final segment].
get_cache_path(distro, path) ==
    LET path_hash == Md5(path)
        filename == IF Basename(path) # <<>> THEN Basename(path)
                    ELSE <<"i", "n", "d", "e", "x">>
        cache_dir == PathJoin(StorageSegs, distro) \o <<SubSeq(path_hash, 1, 2)>>
    IN [dir |-> cache_dir,
        name |-> path_hash \o <<"_">> \o filename]

\* pathlib's PurePath.with_suffix: the suffix is what follows the last dot of
\* the name, unless that dot is the first or the last character
with_suffix(p, suffix) ==
    LET i == LastDot(p.name)
        stem == IF 1 < i /\ i < Len(p.name) THEN SubSeq(p.name, 1, i - 1)
                ELSE p.name
    IN [p EXCEPT !.name = stem \o suffix]

DotTmp == <<".", "t", "m", "p">>

\* filename.split('_', 1): the part after the first underscore, the whole
\* name when there is none
RealFilename(name) ==
    IF \E i \in 1..Len(name) : name[i] = "_"
    THEN LET i == CHOOSE k \in 1..Len(name) :
                      name[k] = "_" /\ \A j \in 1..(k-1) : name[j] # "_"
         IN SubSeq(name, i + 1, Len(name))
    ELSE name

CachePathOf(f) == get_cache_path(f.distro, f.path)
TempPathOf(f) == with_suffix(CachePathOf(f), DotTmp)

\* every path a request of the model can touch
AllPaths == {CachePathOf(f) : f \in Fingerprints} \cup {TempPathOf(f) : f \in Fingerprints}

\* cache_dir.mkdir(parents=True, exist_ok=True): the directory of p and every
\* directory above it, as the kernel resolves them
ParentDirs(p) == {Normal(SubSeq(p.dir, 1, n), <<>>) : n \in 1..Len(p.dir)}

(* ------------------------------ blacklist ------------------------------ *)
PatGlob == <<"*", "-", "D", "O", "C", "*", ".", "d", "e", "b">>
Patterns == {PatGlob}

\* "*-doc_*.deb" and "translations"
PatDocGlob == <<"*", "-", "d", "o", "c", "_", "*", ".", "d", "e", "b">>
PatTranslations == <<"t", "r", "a", "n", "s", "l", "a", "t", "i", "o", "n", "s">>
MatchPatterns == {PatGlob, PatDocGlob, PatTranslations}

\* "(*.deb", which translates to a regular expression that does not compile
PatUnclosed == <<"(", "*", ".", "d", "e", "b">>
LookupPatterns == {PatUnclosed, PatGlob, PatTranslations}

\* "vim-doc_9.0.deb", "i18n/Translation-en.gz", "hello_2.10.deb",
\* "Translations.gz", "vim-doc_9x0ydeb"
FnVimDoc == <<"v", "i", "m", "-", "d", "o", "c", "_", "9", ".", "0", ".", "d", "e", "b">>
FnTranslation ==
    <<"i", "1", "8", "n", "/", "T", "r", "a", "n", "s", "l", "a", "t", "i", "o", "n",
      "-", "e", "n", ".", "g", "z">>
FnHello == <<"h", "e", "l", "l", "o", "_", "2", ".", "1", "0", ".", "d", "e", "b">>
FnTranslations ==
    <<"T", "r", "a", "n", "s", "l", "a", "t", "i", "o", "n", "s", ".", "g", "z">>
FnNoDot == <<"v", "i", "m", "-", "d", "o", "c", "_", "9", "x", "0", "y", "d", "e", "b">>
Filenames == {FnVimDoc, FnTranslation, FnHello, FnTranslations, FnNoDot}

\* re.search(pattern.replace('.', '\.').replace('*', '.*'), s, re.IGNORECASE)
\* restricted to patterns of letters, digits, '-', '_', '.', '*':
\* does pat[i..] match s at position j
RECURSIVE RegexMatchAt(_, _, _, _)
RegexMatchAt(pat, s, i, j) ==
    IF i > Len(pat) THEN TRUE
    ELSE IF pat[i] = "*"
         THEN \E j2 \in j..(Len(s) + 1) : RegexMatchAt(pat, s, i + 1, j2)
         ELSE /\ j <= Len(s)
              /\ Lower(pat[i]) = Lower(s[j])
              /\ RegexMatchAt(pat, s, i + 1, j + 1)

ReSearch(pat, s) == \E j \in 1..(Len(s) + 1) : RegexMatchAt(pat, s, 1, j)

\* as PatternMatches, with the case of the letters kept
PatternMatchesCase(pattern, filename) ==
    IF \E i \in 1..Len(pattern) : pattern[i] = "*"
    THEN ReSearch(pattern, filename)
    ELSE Contains(filename, pattern)

PatternMatches(pattern, filename) ==
    IF \E i \in 1..Len(pattern) : pattern[i] = "*"
    THEN ReSearch(pattern, filename)
    ELSE Contains(LowerStr(filename), LowerStr(pattern))

\* re.compile of the translated pattern, for patterns of letters, digits,
\* '-', '_', '.', '*' and '(': a group that is opened and never closed is
\* an error
Compiles(pattern) ==
    \A i \in 1..Len(pattern) :
        pattern[i] = "(" => \E j \in (i + 1)..Len(pattern) : pattern[j] = ")"

\* the body of the try block for one pattern: re.search raises re.error on
\* a pattern that does not compile, the substring test compiles nothing
Evaluate(pattern, filename) ==
    IF (\E i \in 1..Len(pattern) : pattern[i] = "*") /\ ~Compiles(pattern)
    THEN "raise"
    ELSE IF PatternMatches(pattern, filename) THEN "match" ELSE "nomatch"

\* the loop of is_blacklisted from pattern i on: return True at the first
\* match, except: pass, return False after the last pattern
RECURSIVE ScanFrom(_, _, _)
ScanFrom(patterns, filename, i) ==
    IF i > Len(patterns) THEN FALSE
    ELSE IF Evaluate(patterns[i], filename) = "match" THEN TRUE
    ELSE ScanFrom(patterns, filename, i + 1)

\* is_blacklisted over a pattern list
IsBlacklistedIn(patterns, filename) == ScanFrom(patterns, filename, 1)

(* ------------------------------ upstream ------------------------------- *)
Mirrors == 1..NumMirrors

\* the mirror list of the upstream key, in configured order
Urls == [i \in 1..NumMirrors |-> i]

\* the file as mirror m serves it: chunk i of mirror m is <<m, i>>
Body(m) == [i \in 1..BodyLen |-> <<m, i>>]

\* the body of a 206 answer: the range from the second chunk on
PartialBody(m) == SubSeq(Body(m), 2, BodyLen)

\* a stretch of a file that was never written reads as zero bytes
Hole == <<0, 0>>

Success == {"200", "206", "304"}
Recoverable == {"404", "503", "Timeout", "ConnectionError"}
Outcomes == Success \cup Recoverable

(* ------------------------------- state --------------------------------- *)
VARIABLES
    files,               \* directory entries: path -> inode number (0: none)
    inodes,              \* inode number -> [data, atime, mtime]
    dirs,                \* the directories that exist under the storage root
    now,                 \* the clock, in days
    CONFIG,              \* [cache_retention_enabled, cache_days]
    BLACKLIST_PATTERNS,  \* the in-memory pattern list
    package_blacklist,   \* the package_blacklist table
    bytes_served,        \* STATS['bytes_served'], in chunks
    req,                 \* the request threads
    sw,                  \* the retention sweeper
    adm,                 \* the admin's delete call
    stats_lock,          \* stats.stats_lock: its holder, "free" when none
    db_lock,             \* database.db_lock: its holder, "free" when none
    saver,               \* the threads running save_stats_to_db
    stats_db,            \* the bytes_served row of the stats table
    obs,                 \* a search_upstream_packages call
    call,                \* a call of a function of the module, with its result
    blacklist_lock,      \* cache_manager.blacklist_lock: its holder or "free"
    log_lock,            \* stats.log_lock: its holder or "free"
    config_lock,         \* config.config_lock: its holder or "free"
    LOG_BUFFER,          \* stats.LOG_BUFFER, the messages
    thr                  \* the threads calling the functions of the core

vars == <<files, inodes, dirs, now, CONFIG, BLACKLIST_PATTERNS,
          package_blacklist, bytes_served, req, sw, adm,
          stats_lock, db_lock, saver, stats_db, obs, call,
          blacklist_lock, log_lock, config_lock, LOG_BUFFER, thr>>

\* the state of the stats persister, and the two callers off the request path
persist == <<stats_lock, db_lock, saver, stats_db>>
aside == <<obs, call>>

\* the threads next to the requests, with the state and the locks they use
core == <<blacklist_lock, log_lock, config_lock, LOG_BUFFER, thr>>

\* two request threads, each serving one request: the claims on concurrent
\* requests are about two
Req == {1, 2}
InoIds == 1..(Cardinality(AllPaths) + Cardinality(Req))

Blank == [data |-> <<>>, atime |-> 0, mtime |-> 0]
NoFp == [distro |-> <<>>, path |-> <<>>]

IdleReq ==
    [pc |-> "idle", kind |-> "none", fp |-> NoFp, should_cache |-> FALSE,
     contacted |-> <<>>, last_error |-> "None", status |-> "none",
     src |-> 0, body |-> <<>>, fd |-> 0, off |-> 0, k |-> 0,
     delivered |-> <<>>, result |-> "none", ok |-> "none", msg |-> "none",
     error_body |-> "none", log |-> "none"]

NoPath == [dir |-> <<>>, name |-> <<>>]
NoStat == [ino |-> 0, atime |-> 0, mtime |-> 0]

\* faults: the calls of the walk that the file system answers with OSError
IdleSweep ==
    [pc |-> "idle", started_at |-> 0, cutoff_time |-> 0, stack |-> <<>>,
     pending |-> {}, cur |-> NoPath, stat |-> NoStat, cleaned_count |-> 0,
     faults |-> {}]

IdleAdmin == [pc |-> "idle", rel_path |-> <<>>, result |-> FALSE]

\* no thread is in save_stats_to_db; tx is the value of the open transaction
IdleSaver == [pc |-> "idle", pending |-> 0, tx |-> 0]

IdleSearch == [pc |-> "idle", query |-> <<>>, todo |-> {}, opened |-> {},
               results |-> <<>>]

NoCall == [op |-> "none"]

\* two threads, each making one call
Thr == {"a", "b"}

IdleThr ==
    [op |-> "none", pc |-> "idle", filename |-> <<>>, pattern |-> <<>>,
     i |-> 0, seen |-> <<>>, rows |-> {}, result |-> "none"]

(* ---------------------------- file system ------------------------------ *)
Exists(p) == p \in DOMAIN files /\ files[p] # 0

Referenced(nf, nr, i) ==
    \/ \E p \in DOMAIN nf : nf[p] = i
    \/ \E r \in Req : nr[r].fd = i

\* the lowest inode number in use by no directory entry and no open file
FreeIno == CHOOSE i \in InoIds :
              /\ ~Referenced(files, req, i)
              /\ \A j \in 1..(i - 1) : Referenced(files, req, j)

\* the next state of the file system and the requests; an inode that no
\* directory entry and no open file refers to any more is gone
Commit(nf, ni, nr) ==
    /\ files' = nf
    /\ req' = nr
    /\ inodes' = [i \in InoIds |-> IF Referenced(nf, nr, i) THEN ni[i] ELSE Blank]

\* as WriteAt, for a file opened in append mode: every write lands at the end
WriteAppend(data, off, chunk) == Append(data, chunk)

\* write(2) of one chunk at offset off (in chunks); a gap reads as zeros
WriteAt(data, off, chunk) ==
    LET n == IF Len(data) > off + 1 THEN Len(data) ELSE off + 1
    IN [j \in 1..n |-> IF j = off + 1 THEN chunk
                       ELSE IF j <= Len(data) THEN data[j] ELSE Hole]

\* open(path, 'wb'): O_CREAT | O_TRUNC; gives the directory entries, the
\* inodes and the inode that is now open
OpenTrunc(p) ==
    IF files[p] = 0
    THEN [files |-> [files EXCEPT ![p] = FreeIno],
          inodes |-> [inodes EXCEPT ![FreeIno] =
                         [data |-> <<>>, atime |-> now, mtime |-> now]],
          ino |-> FreeIno]
    ELSE [files |-> files,
          inodes |-> [inodes EXCEPT ![files[p]].data = <<>>,
                                    ![files[p]].mtime = now],
          ino |-> files[p]]

\* rename(2) of an existing src over dst
RenameOver(src, dst) ==
    IF src = dst THEN files
    ELSE [files EXCEPT ![dst] = files[src], ![src] = 0]

\* unlink(2)
Unlink(p) == [files EXCEPT ![p] = 0]

Content(p) == inodes[files[p]].data

(* ---------------------------- cache admin ------------------------------ *)
is_cache_valid(cache_path) ==
    IF ~Exists(cache_path) THEN FALSE
    ELSE IF ~CONFIG.cache_retention_enabled THEN TRUE
    ELSE now - inodes[files[cache_path]].atime < CONFIG.cache_days

is_blacklisted(filename) == IsBlacklistedIn(BLACKLIST_PATTERNS, filename)

(* --------------------------- blacklist admin --------------------------- *)
InList(list, x) == \E i \in 1..Len(list) : list[i] = x

\* as ListRemove, dropping the head of the list
ListRemoveHead(list, x) == Tail(list)

\* list.remove(x): drops the first occurrence
ListRemove(list, x) ==
    LET i == CHOOSE k \in 1..Len(list) :
                 list[k] = x /\ \A j \in 1..(k - 1) : list[j] # x
    IN SubSeq(list, 1, i - 1) \o SubSeq(list, i + 1, Len(list))

\* the two admin calls, each run from its start to its end with no step of
\* another thread between its database block and its list block
add_blacklist_pattern(pattern) ==
    /\ db_lock = "free" /\ blacklist_lock = "free"
    /\ package_blacklist' = package_blacklist \cup {pattern}
    /\ BLACKLIST_PATTERNS' = IF InList(BLACKLIST_PATTERNS, pattern)
                             THEN BLACKLIST_PATTERNS
                             ELSE Append(BLACKLIST_PATTERNS, pattern)
    /\ UNCHANGED <<core, persist, obs, sw, adm, files, inodes, dirs, now, CONFIG, bytes_served, req>>

remove_blacklist_pattern(pattern) ==
    /\ db_lock = "free" /\ blacklist_lock = "free"
    /\ package_blacklist' = package_blacklist \ {pattern}
    /\ BLACKLIST_PATTERNS' = IF InList(BLACKLIST_PATTERNS, pattern)
                             THEN ListRemove(BLACKLIST_PATTERNS, pattern)
                             ELSE BLACKLIST_PATTERNS
    /\ UNCHANGED <<core, persist, obs, sw, adm, files, inodes, dirs, now, CONFIG, bytes_served, req>>

(* ------------------------- mirror failover ----------------------------- *)
\* the string recorded in last_error for a recoverable outcome
LastError(o) ==
    CASE o = "404" -> "404 Not Found"
      [] o = "503" -> "HTTP 503"
      [] o = "Timeout" -> "Timeout"
      [] OTHER -> "ConnectionError"

\* as NextMirror, walking the list from its end
NextMirrorReversed(R) == Urls[Len(Urls) - Len(R.contacted)]

\* the url of the loop iteration a request is in: urls in listed order
NextMirror(R) == Urls[Len(R.contacted) + 1]

\* as ShouldCache, without the blacklist check
ShouldCacheAlways(cache_path) == TRUE

\* the blacklist decision at the head of stream_and_cache
ShouldCache(cache_path) == ~is_blacklisted(RealFilename(cache_path.name))

Entered(R, f) ==
    [R EXCEPT !.pc = "fetch", !.fp = f, !.should_cache = ShouldCache(CachePathOf(f))]

\* as Respond, with the first failure final: no fallback to the next mirror
RespondFirstFailure(R, m, o) ==
    LET C == [R EXCEPT !.contacted = Append(@, <<m, o>>)]
    IN IF o = "304"
       THEN [C EXCEPT !.status = "304", !.pc = "done", !.result = "empty"]
       ELSE IF o = "206"
       THEN [C EXCEPT !.status = "206", !.src = m, !.body = PartialBody(m),
                      !.pc = "plain"]
       ELSE IF o = "200"
       THEN [C EXCEPT !.status = "200", !.src = m, !.body = Body(m),
                      !.pc = IF R.should_cache THEN "gen_cached" ELSE "plain"]
       ELSE [C EXCEPT !.last_error = LastError(o), !.status = "502",
                      !.error_body = LastError(o), !.pc = "done",
                      !.result = "error page"]

\* as Respond, with a 206 body teed to the cache like a 200 body
RespondPartialCached(R, m, o) ==
    LET C == [R EXCEPT !.contacted = Append(@, <<m, o>>)]
    IN IF o = "304"
       THEN [C EXCEPT !.status = "304", !.pc = "done", !.result = "empty"]
       ELSE IF o = "206"
       THEN [C EXCEPT !.status = "206", !.src = m, !.body = PartialBody(m),
                      !.pc = IF R.should_cache THEN "gen_cached" ELSE "plain"]
       ELSE IF o = "200"
       THEN [C EXCEPT !.status = "200", !.src = m, !.body = Body(m),
                      !.pc = IF R.should_cache THEN "gen_cached" ELSE "plain"]
       ELSE IF Len(C.contacted) < Len(Urls)
       THEN [C EXCEPT !.last_error = LastError(o)]
       ELSE [C EXCEPT !.last_error = LastError(o), !.status = "502",
                      !.error_body = LastError(o), !.pc = "done",
                      !.result = "error page"]

\* one iteration of the loop over urls: mirror m answered o
Respond(R, m, o) ==
    LET C == [R EXCEPT !.contacted = Append(@, <<m, o>>)]
    IN IF o = "304"
       THEN [C EXCEPT !.status = "304", !.pc = "done", !.result = "empty"]
       ELSE IF o = "206"
       THEN [C EXCEPT !.status = "206", !.src = m, !.body = PartialBody(m),
                      !.pc = "plain"]
       ELSE IF o = "200"
       THEN [C EXCEPT !.status = "200", !.src = m, !.body = Body(m),
                      !.pc = IF R.should_cache THEN "gen_cached" ELSE "plain"]
       ELSE IF Len(C.contacted) < Len(Urls)
       THEN [C EXCEPT !.last_error = LastError(o)]
       ELSE [C EXCEPT !.last_error = LastError(o), !.status = "502",
                      !.error_body = LastError(o), !.pc = "done",
                      !.result = "error page"]

\* manual_cache_package drains the response only when its status is 200
AfterResponse(R) ==
    IF R.kind = "prefetch" /\ R.status \notin {"none", "200"}
    THEN [R EXCEPT !.pc = "done", !.ok = "false", !.msg = "Failed to download"]
    ELSE R

\* what manual_cache_package returns once the generator has ended
Drained(R) ==
    IF R.kind = "prefetch"
    THEN [R EXCEPT !.pc = "done", !.ok = "true", !.msg = "Successfully cached"]
    ELSE [R EXCEPT !.pc = "done"]

(* ----------------------------- requests -------------------------------- *)
\* as Counted, from the count of the chunks the thread itself has delivered
CountedStale(n, R) == Len(R.delivered) + 1

\* with stats_lock: STATS['bytes_served'] += len(chunk), in chunks, by the
\* thread of request R
Counted(n, R) == n + 1

\* threads are interchangeable: they take up requests in the order of their numbers
MayStart(r) == req[r].pc = "idle" /\ \A q \in 1..(r - 1) : req[q].pc # "idle"

\* the front end hands stream_and_cache a request it decided to fetch
\* upstream; is_blacklisted takes blacklist_lock for its loop
ServeStart(r, fps) ==
    /\ MayStart(r)
    /\ blacklist_lock = "free"
    /\ \E f \in fps :
          /\ req' = [req EXCEPT ![r] = Entered([req[r] EXCEPT !.kind = "serve"], f)]
          /\ dirs' = dirs \cup ParentDirs(CachePathOf(f))
    /\ UNCHANGED <<core, persist, aside, sw, adm, files, inodes, now, CONFIG, BLACKLIST_PATTERNS,
                   package_blacklist, bytes_served>>

manual_cache_package(r, fps) ==
    /\ MayStart(r)
    /\ \E f \in fps, configured \in BOOLEAN :
          LET R == [req[r] EXCEPT !.kind = "prefetch", !.fp = f]
          IN /\ (is_cache_valid(CachePathOf(f)) \/ ~configured \/ blacklist_lock = "free")
             /\ dirs' = dirs \cup ParentDirs(CachePathOf(f))
             /\ req' = [req EXCEPT ![r] =
                   IF is_cache_valid(CachePathOf(f))
                   THEN [R EXCEPT !.pc = "done", !.ok = "true",
                                  !.msg = "File already cached"]
                   ELSE IF ~configured
                   THEN [R EXCEPT !.pc = "done", !.ok = "false",
                                  !.msg = "No upstream configured"]
                   ELSE Entered(R, f)]
    /\ UNCHANGED <<core, persist, aside, sw, adm, files, inodes, now, CONFIG, BLACKLIST_PATTERNS,
                   package_blacklist, bytes_served>>

\* requests.get on the next url, with the outcome drawn from outs
Fetch(r, outs) ==
    /\ req[r].pc = "fetch"
    /\ \E o \in outs :
          req' = [req EXCEPT ![r] = AfterResponse(Respond(req[r], NextMirror(req[r]), o))]
    /\ UNCHANGED <<core, persist, aside, sw, adm, files, inodes, dirs, now, CONFIG, BLACKLIST_PATTERNS,
                   package_blacklist, bytes_served>>

\* generate_cached, up to its loop: open(temp_path, 'wb')
OpenTemp(r) ==
    /\ req[r].pc = "gen_cached"
    /\ LET o == OpenTrunc(TempPathOf(req[r].fp))
       IN Commit(o.files, o.inodes,
                 [req EXCEPT ![r].pc = "tee", ![r].fd = o.ino, ![r].off = 0])
    /\ UNCHANGED <<core, persist, aside, sw, adm, dirs, now, CONFIG, BLACKLIST_PATTERNS, package_blacklist,
                   bytes_served>>

\* open(temp_path, 'wb') raises (no space, no permission): the handler runs
OpenError(r) ==
    /\ req[r].pc = "gen_cached"
    /\ req' = [req EXCEPT ![r].pc = "except"]
    /\ UNCHANGED <<core, persist, aside, sw, adm, files, inodes, dirs, now, CONFIG,
                   BLACKLIST_PATTERNS, package_blacklist, bytes_served>>

\* one turn of the loop of generate_cached: write, count, yield
TeeChunk(r) ==
    /\ req[r].pc = "tee"
    /\ req[r].k < Len(req[r].body)
    /\ stats_lock = "free"
    /\ LET R == req[r]
           chunk == R.body[R.k + 1]
       IN Commit(files,
                 [inodes EXCEPT ![R.fd].data = WriteAt(@, R.off, chunk),
                                ![R.fd].mtime = now],
                 [req EXCEPT ![r].k = R.k + 1, ![r].off = R.off + 1,
                             ![r].delivered = Append(R.delivered, chunk)])
    /\ bytes_served' = Counted(bytes_served, req[r])
    /\ UNCHANGED <<core, persist, aside, sw, adm, dirs, now, CONFIG, BLACKLIST_PATTERNS, package_blacklist>>

\* iter_content or f.write raises part-way: the file is closed, the handler runs
StreamError(r) ==
    /\ req[r].pc = "tee"
    /\ req[r].k < Len(req[r].body)
    /\ Commit(files, inodes, [req EXCEPT ![r].pc = "except", ![r].fd = 0])
    /\ UNCHANGED <<core, persist, aside, sw, adm, dirs, now, CONFIG, BLACKLIST_PATTERNS, package_blacklist,
                   bytes_served>>

\* the loop ends: the file is closed and temp_path.rename(cache_path) runs;
\* it raises FileNotFoundError when the temp path has no entry. After the
\* rename a thread is started on save_stats_to_db when the counter stands at
\* a multiple of 10 MiB.
Publish(r) ==
    /\ req[r].pc = "tee"
    /\ req[r].k = Len(req[r].body)
    /\ LET R == req[r]
           temp_path == TempPathOf(R.fp)
       IN IF Exists(temp_path)
          THEN Commit(RenameOver(temp_path, CachePathOf(R.fp)), inodes,
                      [req EXCEPT ![r] = Drained([R EXCEPT !.fd = 0, !.result = "eof",
                                                           !.log = "CACHED"])])
          ELSE Commit(files, inodes, [req EXCEPT ![r].pc = "except", ![r].fd = 0])
    /\ saver' = IF Exists(TempPathOf(req[r].fp)) /\ bytes_served % TenMiB = 0
                THEN [saver EXCEPT !.pending = @ + 1]
                ELSE saver
    /\ UNCHANGED <<core, stats_lock, db_lock, stats_db, aside, sw, adm, dirs, now, CONFIG,
                   BLACKLIST_PATTERNS, package_blacklist, bytes_served>>

\* as Cleanup, with the temp file left where it is
CleanupLeavesTemp(r) ==
    /\ req[r].pc = "except"
    /\ Commit(files, inodes,
              [req EXCEPT ![r] = [Drained([req[r] EXCEPT !.result = "eof"])
                                     EXCEPT !.log = "Error caching"]])
    /\ UNCHANGED <<core, persist, aside, sw, adm, dirs, now, CONFIG, BLACKLIST_PATTERNS,
                   package_blacklist, bytes_served>>

\* the except branch of generate_cached; the generator then ends
Cleanup(r) ==
    /\ req[r].pc = "except"
    /\ LET R == req[r]
           temp_path == TempPathOf(R.fp)
       IN Commit(IF Exists(temp_path) THEN Unlink(temp_path) ELSE files, inodes,
                 [req EXCEPT ![r] = [Drained([R EXCEPT !.result = "eof"])
                                        EXCEPT !.log = "Error caching"]])
    /\ UNCHANGED <<core, persist, aside, sw, adm, dirs, now, CONFIG, BLACKLIST_PATTERNS, package_blacklist,
                   bytes_served>>

\* one turn of the loop of generate_stream or generate_partial
PlainChunk(r) ==
    /\ req[r].pc = "plain"
    /\ req[r].k < Len(req[r].body)
    /\ stats_lock = "free"
    /\ req' = [req EXCEPT ![r].k = @ + 1,
                          ![r].delivered = Append(@, req[r].body[req[r].k + 1])]
    /\ bytes_served' = Counted(bytes_served, req[r])
    /\ UNCHANGED <<core, persist, aside, sw, adm, files, inodes, dirs, now, CONFIG, BLACKLIST_PATTERNS,
                   package_blacklist>>

PlainEof(r) ==
    /\ req[r].pc = "plain"
    /\ req[r].k = Len(req[r].body)
    /\ req' = [req EXCEPT ![r] = Drained([req[r] EXCEPT !.result = "eof"])]
    /\ UNCHANGED <<core, persist, aside, sw, adm, files, inodes, dirs, now, CONFIG, BLACKLIST_PATTERNS,
                   package_blacklist, bytes_served>>

\* iter_content raises in a generator without a handler: the exception
\* reaches the caller
PlainError(r) ==
    /\ req[r].pc = "plain"
    /\ req[r].k < Len(req[r].body)
    /\ req' = [req EXCEPT ![r].pc = "done", ![r].result = "error",
                          ![r].ok = IF req[r].kind = "prefetch" THEN "false" ELSE @,
                          ![r].msg = IF req[r].kind = "prefetch" THEN "ConnectionError" ELSE @]
    /\ UNCHANGED <<core, persist, aside, sw, adm, files, inodes, dirs, now, CONFIG, BLACKLIST_PATTERNS,
                   package_blacklist, bytes_served>>

\* a generator can be closed where it has not started or is suspended at a yield
AtYield(R) ==
    \/ R.pc = "gen_cached"
    \/ R.pc = "plain"
    \/ R.pc = "tee" /\ R.k >= 1

\* the client disconnects: the front end closes the generator, GeneratorExit
\* is raised at the yield; it is no Exception, so only the with block acts
Abort(r) ==
    /\ req[r].kind = "serve"
    /\ AtYield(req[r])
    /\ Commit(files, inodes,
              [req EXCEPT ![r].pc = "done", ![r].fd = 0, ![r].result = "aborted"])
    /\ UNCHANGED <<core, persist, aside, sw, adm, dirs, now, CONFIG, BLACKLIST_PATTERNS, package_blacklist,
                   bytes_served>>

(* --------------------------- stats persister --------------------------- *)
\* a started thread enters save_stats_to_db: with db_lock, connect
SaveBegin ==
    /\ saver.pc = "idle"
    /\ saver.pending > 0
    /\ db_lock = "free"
    /\ db_lock' = "saver"
    /\ saver' = [saver EXCEPT !.pc = "connected", !.pending = @ - 1]
    /\ UNCHANGED <<core, stats_lock, stats_db, aside, sw, adm, files, inodes, dirs, now,
                   CONFIG, BLACKLIST_PATTERNS, package_blacklist, bytes_served, req>>

\* with stats_lock
SaveLock ==
    /\ saver.pc = "connected"
    /\ stats_lock = "free"
    /\ stats_lock' = "saver"
    /\ saver' = [saver EXCEPT !.pc = "locked"]
    /\ UNCHANGED <<core, db_lock, stats_db, aside, sw, adm, files, inodes, dirs, now,
                   CONFIG, BLACKLIST_PATTERNS, package_blacklist, bytes_served, req>>

\* the UPDATE statements, run on the database while stats_lock is held
SaveExecute ==
    /\ saver.pc = "locked"
    /\ saver' = [saver EXCEPT !.pc = "executed", !.tx = bytes_served]
    /\ UNCHANGED <<core, stats_lock, db_lock, stats_db, aside, sw, adm, files, inodes, dirs,
                   now, CONFIG, BLACKLIST_PATTERNS, package_blacklist, bytes_served, req>>

\* the end of the with stats_lock block
SaveUnlock ==
    /\ saver.pc = "executed"
    /\ stats_lock' = "free"
    /\ saver' = [saver EXCEPT !.pc = "unlocked"]
    /\ UNCHANGED <<core, db_lock, stats_db, aside, sw, adm, files, inodes, dirs, now,
                   CONFIG, BLACKLIST_PATTERNS, package_blacklist, bytes_served, req>>

\* conn.commit(), conn.close(), the end of the with db_lock block
SaveCommit ==
    /\ saver.pc = "unlocked"
    /\ stats_db' = saver.tx
    /\ db_lock' = "free"
    /\ saver' = [saver EXCEPT !.pc = "idle", !.tx = 0]
    /\ UNCHANGED <<core, stats_lock, aside, sw, adm, files, inodes, dirs, now,
                   CONFIG, BLACKLIST_PATTERNS, package_blacklist, bytes_served, req>>

\* the database raises: the with blocks give up their locks, nothing is
\* committed, the error is logged
SaveError ==
    /\ saver.pc \in {"connected", "locked", "executed", "unlocked"}
    /\ stats_lock' = IF stats_lock = "saver" THEN "free" ELSE stats_lock
    /\ db_lock' = "free"
    /\ saver' = [saver EXCEPT !.pc = "idle", !.tx = 0]
    /\ UNCHANGED <<core, stats_db, aside, sw, adm, files, inodes, dirs, now,
                   CONFIG, BLACKLIST_PATTERNS, package_blacklist, bytes_served, req>>

SaveStep ==
    SaveBegin \/ SaveLock \/ SaveExecute \/ SaveUnlock \/ SaveCommit \/ SaveError

(* ------------------------- retention sweeper --------------------------- *)
\* as LastAccess, reading the access time alone
LastAccessAtimeOnly(st) == st.atime

\* the age a file is judged by: st_atime, or st_mtime when that is later
LastAccess(st) == IF st.mtime > st.atime THEN st.mtime ELSE st.atime

DirExists(d) == d = <<>> \/ d \in dirs

\* os.scandir(d): the sub-directories and the files of d
ScanDir(d) ==
    {[kind |-> "dir", dir |-> x, name |-> <<>>] :
        x \in {y \in dirs : Len(y) = Len(d) + 1 /\ SubSeq(y, 1, Len(d)) = d}}
    \cup {[kind |-> "file", dir |-> p.dir, name |-> p.name] :
            p \in {q \in DOMAIN files : files[q] # 0 /\ q.dir = d}}

\* clean_old_cache, to the head of its walk
SweepStart ==
    /\ sw.pc = "idle"
    /\ sw' = IF ~CONFIG.cache_retention_enabled
             THEN [sw EXCEPT !.pc = "done", !.started_at = now]
             ELSE [sw EXCEPT !.pc = "walk", !.started_at = now,
                             !.cutoff_time = now - CONFIG.cache_days,
                             !.stack = <<StorageSegs>>]
    /\ UNCHANGED <<core, persist, aside, files, inodes, dirs, now, CONFIG, BLACKLIST_PATTERNS,
                   package_blacklist, bytes_served, req, adm>>

\* the call op on the entry (dir, name) raises OSError
Fails(op, dir, name) == [op |-> op, dir |-> dir, name |-> name] \in sw.faults

\* stack.pop() and os.scandir(current_dir); when scandir raises, the error
\* is logged and the loop goes on with the next directory of the stack
SweepScanDir ==
    /\ sw.pc = "walk"
    /\ sw.pending = {}
    /\ sw.stack # <<>>
    /\ LET current_dir == sw.stack[Len(sw.stack)]
       IN sw' = [sw EXCEPT !.stack = SubSeq(@, 1, Len(@) - 1),
                           !.pending = IF Fails("scandir", current_dir, <<>>)
                                       THEN {}
                                       ELSE ScanDir(current_dir)]
    /\ UNCHANGED <<core, persist, aside, files, inodes, dirs, now, CONFIG, BLACKLIST_PATTERNS,
                   package_blacklist, bytes_served, req, adm>>

\* one entry of the scan, in the order scandir gives: entry.is_dir() and
\* entry.is_file() stand outside the inner try, so when one raises the
\* rest of the directory is given up (the outer except logs it); a directory
\* goes on the stack; a file is stat'ed (a file that is gone, or a stat that
\* raises, is skipped) and compared with the cutoff
SweepEntry ==
    /\ sw.pc = "walk"
    /\ \E e \in sw.pending :
          LET path == [dir |-> e.dir, name |-> e.name]
              rest == [sw EXCEPT !.pending = @ \ {e}]
          IN sw' = IF Fails("is_dir", e.dir, e.name)
                   THEN [sw EXCEPT !.pending = {}]
                   ELSE IF e.kind = "dir"
                   THEN [rest EXCEPT !.stack = Append(@, e.dir)]
                   ELSE IF files[path] = 0 \/ Fails("stat", e.dir, e.name)
                   THEN rest
                   ELSE LET st == [ino |-> files[path],
                                   atime |-> inodes[files[path]].atime,
                                   mtime |-> inodes[files[path]].mtime]
                        IN IF LastAccess(st) < sw.cutoff_time
                           THEN [rest EXCEPT !.pc = "remove", !.cur = path, !.stat = st]
                           ELSE rest
    /\ UNCHANGED <<core, persist, aside, files, inodes, dirs, now, CONFIG, BLACKLIST_PATTERNS,
                   package_blacklist, bytes_served, req, adm>>

\* os.remove(entry.path) on the file found too old (if the path has no entry
\* any more, or the removal is refused, it raises, and the file is skipped)
SweepRemove ==
    /\ sw.pc = "remove"
    /\ IF files[sw.cur] # 0 /\ ~Fails("remove", sw.cur.dir, sw.cur.name)
       THEN /\ Commit(Unlink(sw.cur), inodes, req)
            /\ sw' = [sw EXCEPT !.pc = "walk", !.cur = NoPath, !.stat = NoStat,
                                !.cleaned_count = @ + 1]
       ELSE /\ sw' = [sw EXCEPT !.pc = "walk", !.cur = NoPath, !.stat = NoStat]
            /\ UNCHANGED <<files, inodes, req>>
    /\ UNCHANGED <<core, persist, aside, dirs, now, CONFIG, BLACKLIST_PATTERNS, package_blacklist,
                   bytes_served, adm>>

\* the stack is empty: the walk is over
SweepDone ==
    /\ sw.pc = "walk"
    /\ sw.pending = {}
    /\ sw.stack = <<>>
    /\ sw' = [sw EXCEPT !.pc = "done"]
    /\ UNCHANGED <<core, persist, aside, files, inodes, dirs, now, CONFIG, BLACKLIST_PATTERNS,
                   package_blacklist, bytes_served, req, adm>>

SweepStep == SweepStart \/ SweepScanDir \/ SweepEntry \/ SweepRemove \/ SweepDone

\* a day passes
Tick ==
    /\ now < Epoch + MaxTick
    /\ now' = now + 1
    /\ UNCHANGED <<core, persist, aside, files, inodes, dirs, CONFIG, BLACKLIST_PATTERNS,
                   package_blacklist, bytes_served, req, sw, adm>>

(* ---------------------------- admin delete ---------------------------- *)
\* str() of an absolute path
RECURSIVE Render(_)
Render(segs) ==
    IF segs = <<>> THEN <<>> ELSE <<"/">> \o Head(segs) \o Render(Tail(segs))

\* what the kernel makes of the segments of an absolute path (no symbolic
\* links): ".." steps up, and every directory stepped through has to exist
RECURSIVE Walk(_, _)
Walk(segs, at) ==
    IF segs = <<>> THEN [ok |-> TRUE, segs |-> at]
    ELSE IF ~DirExists(at) THEN [ok |-> FALSE, segs |-> <<>>]
    ELSE IF Head(segs) = <<".", ".">>
         THEN Walk(Tail(segs), IF at = <<>> THEN at ELSE SubSeq(at, 1, Len(at) - 1))
         ELSE Walk(Tail(segs), Append(at, Head(segs)))

AsFile(segs) ==
    IF segs = <<>> THEN NoPath
    ELSE [dir |-> SubSeq(segs, 1, Len(segs) - 1), name |-> segs[Len(segs)]]

\* the security check of delete_cached_file:
\* str(full_path).startswith(str(Path(storage_path_str).resolve()))
GuardPasses(full_segs) == StartsWith(Render(full_segs), Render(StorageSegs))

\* the rel_path arguments of the model
RelPaths ==
    { <<"a">>,                                  \* a
      <<"x">>,                                  \* x (no such file)
      <<"/", "s", "/", "a">>,                   \* /s/a
      <<".", ".", "/", "o">>,                   \* ../o
      <<"/", "o">>,                             \* /o
      <<".", ".", "/", "s", "2", "/", "o">>,    \* ../s2/o
      <<"/", "s", "2", "/", "o">>,              \* /s2/o
      <<".", ".", "/", "s", "/", "a">>,         \* ../s/a
      <<"/", "e", "/", "o">> }                  \* /e/o

\* the files of the delete scenarios: /s/a inside the storage root; /o, /s2/o
\* and /e/o outside it
DeletePaths ==
    { [dir |-> StorageSegs, name |-> <<"a">>],
      [dir |-> <<>>, name |-> <<"o">>],
      [dir |-> << <<"s", "2">> >>, name |-> <<"o">>],
      [dir |-> << <<"e">> >>, name |-> <<"o">>] }

delete_cached_file ==
    /\ adm.pc = "idle"
    /\ \E rel_path \in RelPaths :
          LET full_path == PathJoin(StorageSegs, rel_path)
              w == Walk(full_path, <<>>)
              target == AsFile(w.segs)
              deletes == /\ GuardPasses(full_path)
                         /\ w.ok
                         /\ target \in DOMAIN files
                         /\ files[target] # 0
          IN /\ adm' = [pc |-> "done", rel_path |-> rel_path, result |-> deletes]
             /\ IF deletes
                THEN Commit(Unlink(target), inodes, req)
                ELSE UNCHANGED <<files, inodes, req>>
    /\ UNCHANGED <<core, persist, aside, dirs, now, CONFIG, BLACKLIST_PATTERNS, package_blacklist,
                   bytes_served, sw>>

(* ---------------------------- index search ----------------------------- *)
\* a line of text is a sequence of characters, a field name one of them
KeyPackage == <<"Package">>
KeyFilename == <<"Filename">>
KeyVersion == <<"Version">>

\* str.strip()
RECURSIVE StripLeft(_)
StripLeft(str) ==
    IF str # <<>> /\ Head(str) = " " THEN StripLeft(Tail(str)) ELSE str

RECURSIVE StripRight(_)
StripRight(str) ==
    IF str # <<>> /\ str[Len(str)] = " "
    THEN StripRight(SubSeq(str, 1, Len(str) - 1))
    ELSE str

Strip(str) == StripRight(StripLeft(str))

HasColon(str) == \E i \in 1..Len(str) : str[i] = ":"

\* line.split(':', 1), both parts stripped
SplitColon(line) ==
    LET i == CHOOSE k \in 1..Len(line) :
                 line[k] = ":" /\ \A j \in 1..(k - 1) : line[j] # ":"
    IN [key |-> Strip(SubSeq(line, 1, i - 1)),
        val |-> Strip(SubSeq(line, i + 1, Len(line)))]

\* a Filename value as the path get_cache_path is given
PkgPath(val) == SplitSlash(val)

Unknown == <<"u", "n", "k", "n", "o", "w", "n">>

\* the entry parse_packages_file makes of a stanza
Match(current_pkg, distro) ==
    [name |-> current_pkg[KeyPackage],
     path |-> current_pkg[KeyFilename],
     distro |-> distro,
     version |-> IF KeyVersion \in DOMAIN current_pkg THEN current_pkg[KeyVersion]
                 ELSE Unknown,
     cached |-> is_cache_valid(get_cache_path(distro, PkgPath(current_pkg[KeyFilename])))]

\* the test a finished stanza has to pass
Emits(current_pkg, query) ==
    /\ DOMAIN current_pkg # {}
    /\ KeyPackage \in DOMAIN current_pkg
    /\ KeyFilename \in DOMAIN current_pkg
    /\ Contains(LowerStr(current_pkg[KeyPackage]), LowerStr(query))

\* the loop of parse_packages_file over the lines that are left
RECURSIVE ParseLines(_, _, _, _, _)
ParseLines(lines, current_pkg, matches, query, distro) ==
    IF lines = <<>> THEN matches
    ELSE LET line == Strip(Head(lines))
         IN IF line = <<>>
            THEN ParseLines(Tail(lines), <<>>,
                            IF Emits(current_pkg, query)
                            THEN Append(matches, Match(current_pkg, distro))
                            ELSE matches,
                            query, distro)
            ELSE IF HasColon(line)
            THEN ParseLines(Tail(lines),
                            (SplitColon(line).key :> SplitColon(line).val) @@ current_pkg,
                            matches, query, distro)
            ELSE ParseLines(Tail(lines), current_pkg, matches, query, distro)

parse_packages_file(lines, query, distro) ==
    ParseLines(lines, <<>>, <<>>, query, distro)

\* the directories the get_cache_path calls of a parse make
MadeBy(matches, distro) ==
    UNION {ParentDirs(get_cache_path(distro, PkgPath(matches[i].path))) :
              i \in 1..Len(matches)}

\* the lines a Packages file of the model is made of:
\* "Package: h", "Package: H-t", "Filename: p/h.deb",
\* "Filename: p/v-doc.deb" and the empty line
LinePkgH == KeyPackage \o <<":", " ", "h">>
LinePkgHT == KeyPackage \o <<":", " ", "H", "-", "t">>
LineFileH == KeyFilename \o <<":", " ", "p", "/">> \o NameHello
LineFileDoc == KeyFilename \o <<":", " ", "p", "/">> \o NameDoc
LineBlank == <<>>
Lines == {LinePkgH, LinePkgHT, LineFileH, LineFileDoc, LineBlank}

Texts == UNION {[1..n -> Lines] : n \in 0..MaxLines}

Queries == {<<"h">>, <<"T">>, <<"x">>}

\* the text of a cached index: chunk i of the body is its i-th stanza, a
\* stretch never written reads as a line of zero bytes
IndexStanza(i) ==
    IF i % 2 = 1 THEN <<LinePkgH, LineFileH, LineBlank>>
    ELSE <<LinePkgHT, LineFileDoc, LineBlank>>

RECURSIVE Decode(_)
Decode(data) ==
    IF data = <<>> THEN <<>>
    ELSE (IF Head(data) = Hole THEN << <<"0">> >> ELSE IndexStanza(Head(data)[2]))
         \o Decode(Tail(data))

\* the name tests of the walk: 'Packages' in filename, and in the part of it
\* after the hash
IsIndexName(filename) ==
    /\ Contains(filename, NamePackages)
    /\ Contains(RealFilename(filename), NamePackages)

\* search_upstream_packages for a query without '/', to its walk of the
\* distro's directory: the files there whose names pass
SearchStart ==
    /\ obs.pc = "idle"
    /\ \E query \in Queries :
          obs' = IF PathJoin(StorageSegs, Debian) \notin dirs
                 THEN [IdleSearch EXCEPT !.pc = "done", !.query = query]
                 ELSE [IdleSearch EXCEPT
                          !.pc = "walk", !.query = query,
                          !.todo = {p \in DOMAIN files :
                                       /\ files[p] # 0
                                       /\ IsPrefix(PathJoin(StorageSegs, Debian), p.dir)
                                       /\ IsIndexName(p.name)}]
    /\ UNCHANGED <<core, persist, call, sw, adm, files, inodes, dirs, now, CONFIG,
                   BLACKLIST_PATTERNS, package_blacklist, bytes_served, req>>

\* one file of the walk: parse_packages_file opens and reads it (a file that
\* is gone by now gives no match), the matches are added up to the limit
SearchFile ==
    /\ obs.pc = "walk"
    /\ \E p \in obs.todo :
          LET matches == IF Exists(p)
                         THEN parse_packages_file(Decode(Content(p)), obs.query, Debian)
                         ELSE <<>>
              all == obs.results \o matches
          IN /\ obs' = [obs EXCEPT
                           !.todo = @ \ {p},
                           !.opened = IF Exists(p) THEN @ \cup {p} ELSE @,
                           !.results = IF Len(all) >= Limit THEN SubSeq(all, 1, Limit)
                                       ELSE all,
                           !.pc = IF Len(all) >= Limit THEN "done" ELSE @]
             /\ dirs' = dirs \cup MadeBy(matches, Debian)
    /\ UNCHANGED <<core, persist, call, sw, adm, files, inodes, now, CONFIG,
                   BLACKLIST_PATTERNS, package_blacklist, bytes_served, req>>

SearchDone ==
    /\ obs.pc = "walk"
    /\ obs.todo = {}
    /\ obs' = [obs EXCEPT !.pc = "done"]
    /\ UNCHANGED <<core, persist, call, sw, adm, files, inodes, dirs, now, CONFIG,
                   BLACKLIST_PATTERNS, package_blacklist, bytes_served, req>>

SearchStep == SearchStart \/ SearchFile \/ SearchDone

\* the one call of parse_packages_file of a behaviour, on a file of any text
ParsePackagesFile ==
    /\ call.op = "none"
    /\ \E text \in Texts, query \in Queries :
          LET matches == parse_packages_file(text, query, Debian)
          IN /\ call' = [op |-> "parse_packages_file", text |-> text,
                         query |-> query, result |-> matches]
             /\ dirs' = dirs \cup MadeBy(matches, Debian)
    /\ UNCHANGED <<core, persist, obs, sw, adm, files, inodes, now, CONFIG,
                   BLACKLIST_PATTERNS, package_blacklist, bytes_served, req>>

(* -------------------------- blacklist calls ---------------------------- *)
AdminOps == {"add_blacklist_pattern", "remove_blacklist_pattern"}

\* what is kept of the call before this one
PrevOf(c) ==
    IF c.op \in AdminOps
    THEN [op |-> c.op, pattern |-> c.pattern, before |-> c.before]
    ELSE [op |-> "none", pattern |-> <<>>, before |-> <<>>]

\* the record of an admin call: its pattern, the list it found
Logged(op, pattern) ==
    [op |-> op, pattern |-> pattern, before |-> BLACKLIST_PATTERNS,
     prev |-> PrevOf(call)]

\* a call of is_blacklisted
IsBlacklisted ==
    /\ \E filename \in Filenames :
          call' = [op |-> "is_blacklisted", filename |-> filename,
                   patterns |-> BLACKLIST_PATTERNS,
                   result |-> is_blacklisted(filename)]
    /\ UNCHANGED <<core, persist, obs, sw, adm, files, inodes, dirs, now, CONFIG,
                   BLACKLIST_PATTERNS, package_blacklist, bytes_served, req>>

(* ---------------------------- core threads ----------------------------- *)
\* the thread t with its record changed to T
Moved(t, T) == [thr EXCEPT ![t] = T]

\* a thread calls is_blacklisted(filename) and comes to 'with blacklist_lock'
LookupCall(t, fns) ==
    /\ thr[t].pc = "idle"
    /\ \E filename \in fns :
          thr' = Moved(t, [thr[t] EXCEPT !.op = "is_blacklisted", !.pc = "enter",
                                         !.filename = filename])
    /\ UNCHANGED <<blacklist_lock, log_lock, config_lock, LOG_BUFFER, persist, aside,
                   sw, adm, files, inodes, dirs, now, CONFIG, BLACKLIST_PATTERNS,
                   package_blacklist, bytes_served, req>>

\* with blacklist_lock: the loop starts at the first pattern
LookupEnter(t) ==
    /\ thr[t].op = "is_blacklisted" /\ thr[t].pc = "enter"
    /\ blacklist_lock = "free"
    /\ blacklist_lock' = t
    /\ thr' = Moved(t, [thr[t] EXCEPT !.pc = "loop", !.i = 1,
                                     !.seen = BLACKLIST_PATTERNS])
    /\ UNCHANGED <<log_lock, config_lock, LOG_BUFFER, persist, aside,
                   sw, adm, files, inodes, dirs, now, CONFIG, BLACKLIST_PATTERNS,
                   package_blacklist, bytes_served, req>>

\* as OnRaise, with no except clause around the pattern: the error leaves
\* the function
OnRaiseLeave(T) == [T EXCEPT !.pc = "done", !.result = "raise"]

\* except: pass, the loop goes on with the next pattern
OnRaise(T) == [T EXCEPT !.i = @ + 1]

\* one pattern of the loop; return True leaves the with block
LookupPattern(t) ==
    /\ thr[t].op = "is_blacklisted" /\ thr[t].pc = "loop"
    /\ thr[t].i <= Len(BLACKLIST_PATTERNS)
    /\ LET e == Evaluate(BLACKLIST_PATTERNS[thr[t].i], thr[t].filename)
           T == IF e = "match"
                THEN [thr[t] EXCEPT !.pc = "done", !.result = "True"]
                ELSE IF e = "raise" THEN OnRaise(thr[t])
                ELSE [thr[t] EXCEPT !.i = @ + 1]
       IN /\ thr' = Moved(t, T)
          /\ blacklist_lock' = IF T.pc = "done" THEN "free" ELSE blacklist_lock
    /\ UNCHANGED <<log_lock, config_lock, LOG_BUFFER, persist, aside,
                   sw, adm, files, inodes, dirs, now, CONFIG, BLACKLIST_PATTERNS,
                   package_blacklist, bytes_served, req>>

\* the list is exhausted: the with block ends, return False
LookupEnd(t) ==
    /\ thr[t].op = "is_blacklisted" /\ thr[t].pc = "loop"
    /\ thr[t].i > Len(BLACKLIST_PATTERNS)
    /\ blacklist_lock' = "free"
    /\ thr' = Moved(t, [thr[t] EXCEPT !.pc = "done", !.result = "False"])
    /\ UNCHANGED <<log_lock, config_lock, LOG_BUFFER, persist, aside,
                   sw, adm, files, inodes, dirs, now, CONFIG, BLACKLIST_PATTERNS,
                   package_blacklist, bytes_served, req>>

LookupStep(t, fns) ==
    LookupCall(t, fns) \/ LookupEnter(t) \/ LookupPattern(t) \/ LookupEnd(t)

\* a thread calls add_blacklist_pattern or remove_blacklist_pattern and
\* comes to 'with db_lock'
AdminCall(t, pats) ==
    /\ thr[t].pc = "idle"
    /\ \E op \in AdminOps, pattern \in pats :
          thr' = Moved(t, [thr[t] EXCEPT !.op = op, !.pc = "db_enter",
                                         !.pattern = pattern])
    /\ UNCHANGED <<blacklist_lock, log_lock, config_lock, LOG_BUFFER, persist, aside,
                   sw, adm, files, inodes, dirs, now, CONFIG, BLACKLIST_PATTERNS,
                   package_blacklist, bytes_served, req>>

\* with db_lock, for every function that opens with it
DbEnter(t) ==
    /\ thr[t].pc = "db_enter"
    /\ db_lock = "free"
    /\ db_lock' = t
    /\ thr' = Moved(t, [thr[t] EXCEPT !.pc = "db"])
    /\ UNCHANGED <<blacklist_lock, log_lock, config_lock, LOG_BUFFER, stats_lock, saver,
                   stats_db, aside, sw, adm, files, inodes, dirs, now, CONFIG,
                   BLACKLIST_PATTERNS, package_blacklist, bytes_served, req>>

\* the database raises inside the with db_lock block: the lock is given up,
\* the except clause logs the error (and the admin calls return False)
DbError(t) ==
    /\ thr[t].pc = "db"
    /\ db_lock' = "free"
    /\ thr' = Moved(t, [thr[t] EXCEPT !.pc = "done", !.result = "False"])
    /\ UNCHANGED <<blacklist_lock, log_lock, config_lock, LOG_BUFFER, stats_lock, saver,
                   stats_db, aside, sw, adm, files, inodes, dirs, now, CONFIG,
                   BLACKLIST_PATTERNS, package_blacklist, bytes_served, req>>

\* INSERT OR IGNORE or DELETE, commit, close, and the end of the block
AdminDb(t) ==
    /\ thr[t].op \in AdminOps /\ thr[t].pc = "db"
    /\ package_blacklist' = IF thr[t].op = "add_blacklist_pattern"
                            THEN package_blacklist \cup {thr[t].pattern}
                            ELSE package_blacklist \ {thr[t].pattern}
    /\ db_lock' = "free"
    /\ thr' = Moved(t, [thr[t] EXCEPT !.pc = "mem_enter"])
    /\ UNCHANGED <<blacklist_lock, log_lock, config_lock, LOG_BUFFER, stats_lock, saver,
                   stats_db, aside, sw, adm, files, inodes, dirs, now, CONFIG,
                   BLACKLIST_PATTERNS, bytes_served, req>>

\* with blacklist_lock, after the database block
AdminMemEnter(t) ==
    /\ thr[t].op \in AdminOps /\ thr[t].pc = "mem_enter"
    /\ blacklist_lock = "free"
    /\ blacklist_lock' = t
    /\ thr' = Moved(t, [thr[t] EXCEPT !.pc = "mem"])
    /\ UNCHANGED <<log_lock, config_lock, LOG_BUFFER, persist, aside,
                   sw, adm, files, inodes, dirs, now, CONFIG, BLACKLIST_PATTERNS,
                   package_blacklist, bytes_served, req>>

\* the test and the append or remove on the list, the end of the block,
\* return True
AdminMem(t) ==
    /\ thr[t].op \in AdminOps /\ thr[t].pc = "mem"
    /\ BLACKLIST_PATTERNS' =
          IF thr[t].op = "add_blacklist_pattern"
          THEN IF InList(BLACKLIST_PATTERNS, thr[t].pattern)
               THEN BLACKLIST_PATTERNS
               ELSE Append(BLACKLIST_PATTERNS, thr[t].pattern)
          ELSE IF InList(BLACKLIST_PATTERNS, thr[t].pattern)
               THEN ListRemove(BLACKLIST_PATTERNS, thr[t].pattern)
               ELSE BLACKLIST_PATTERNS
    /\ blacklist_lock' = "free"
    /\ thr' = Moved(t, [thr[t] EXCEPT !.pc = "done", !.result = "True"])
    /\ UNCHANGED <<log_lock, config_lock, LOG_BUFFER, persist, aside,
                   sw, adm, files, inodes, dirs, now, CONFIG,
                   package_blacklist, bytes_served, req>>

AdminStep(t, pats) ==
    \/ AdminCall(t, pats)
    \/ DbEnter(t)
    \/ DbError(t)
    \/ AdminDb(t)
    \/ AdminMemEnter(t)
    \/ AdminMem(t)

\* the locks, by the names the code gives them
LockNames == {"db_lock", "blacklist_lock", "stats_lock", "log_lock", "config_lock"}

HolderOf(L) ==
    CASE L = "db_lock" -> db_lock
      [] L = "blacklist_lock" -> blacklist_lock
      [] L = "stats_lock" -> stats_lock
      [] L = "log_lock" -> log_lock
      [] L = "config_lock" -> config_lock

\* the locks after lock L has gone to holder h
LocksWith(L, h) ==
    /\ db_lock' = IF L = "db_lock" THEN h ELSE db_lock
    /\ blacklist_lock' = IF L = "blacklist_lock" THEN h ELSE blacklist_lock
    /\ stats_lock' = IF L = "stats_lock" THEN h ELSE stats_lock
    /\ log_lock' = IF L = "log_lock" THEN h ELSE log_lock
    /\ config_lock' = IF L = "config_lock" THEN h ELSE config_lock

LoadOps == {"load_blacklist_from_db", "load_stats_from_db"}

\* as LockOrder, with load_stats_from_db taking stats_lock around db_lock
LockOrderInward(op) ==
    IF op = "load_blacklist_from_db" THEN <<"db_lock", "blacklist_lock">>
    ELSE <<"stats_lock", "db_lock">>

\* the two with blocks of a load function, the outer one first
LockOrder(op) ==
    IF op = "load_blacklist_from_db" THEN <<"db_lock", "blacklist_lock">>
    ELSE <<"db_lock", "stats_lock">>

\* a thread calls load_blacklist_from_db or load_stats_from_db
LoadCall(t) ==
    /\ thr[t].pc = "idle"
    /\ \E op \in LoadOps :
          thr' = Moved(t, [thr[t] EXCEPT !.op = op, !.pc = "outer_enter"])
    /\ UNCHANGED <<blacklist_lock, log_lock, config_lock, LOG_BUFFER, persist, aside,
                   sw, adm, files, inodes, dirs, now, CONFIG, BLACKLIST_PATTERNS,
                   package_blacklist, bytes_served, req>>

\* the outer with block is entered
LoadOuter(t) ==
    /\ thr[t].op \in LoadOps /\ thr[t].pc = "outer_enter"
    /\ HolderOf(LockOrder(thr[t].op)[1]) = "free"
    /\ LocksWith(LockOrder(thr[t].op)[1], t)
    /\ thr' = Moved(t, [thr[t] EXCEPT !.pc = "select"])
    /\ UNCHANGED <<LOG_BUFFER, saver, stats_db, aside, sw, adm, files, inodes, dirs, now,
                   CONFIG, BLACKLIST_PATTERNS, package_blacklist, bytes_served, req>>

\* connect, SELECT, fetchall: the rows of the table as they are now
LoadSelect(t) ==
    /\ thr[t].op \in LoadOps /\ thr[t].pc = "select"
    /\ thr' = Moved(t, [thr[t] EXCEPT
                           !.pc = "inner_enter",
                           !.rows = IF thr[t].op = "load_blacklist_from_db"
                                    THEN package_blacklist ELSE {stats_db}])
    /\ UNCHANGED <<blacklist_lock, log_lock, config_lock, LOG_BUFFER, persist, aside,
                   sw, adm, files, inodes, dirs, now, CONFIG, BLACKLIST_PATTERNS,
                   package_blacklist, bytes_served, req>>

\* the inner with block is entered
LoadInner(t) ==
    /\ thr[t].op \in LoadOps /\ thr[t].pc = "inner_enter"
    /\ HolderOf(LockOrder(thr[t].op)[2]) = "free"
    /\ LocksWith(LockOrder(thr[t].op)[2], t)
    /\ thr' = Moved(t, [thr[t] EXCEPT !.pc = "assign"])
    /\ UNCHANGED <<LOG_BUFFER, saver, stats_db, aside, sw, adm, files, inodes, dirs, now,
                   CONFIG, BLACKLIST_PATTERNS, package_blacklist, bytes_served, req>>

\* the rows go to BLACKLIST_PATTERNS (in the order the database gave them)
\* or to STATS, and the inner with block ends
LoadAssign(t) ==
    /\ thr[t].op \in LoadOps /\ thr[t].pc = "assign"
    /\ IF thr[t].op = "load_blacklist_from_db"
       THEN /\ BLACKLIST_PATTERNS' \in
                  {l \in [1..Cardinality(thr[t].rows) -> thr[t].rows] :
                      {l[i] : i \in 1..Len(l)} = thr[t].rows}
            /\ UNCHANGED bytes_served
       ELSE /\ bytes_served' = CHOOSE n \in thr[t].rows : TRUE
            /\ UNCHANGED BLACKLIST_PATTERNS
    /\ LocksWith(LockOrder(thr[t].op)[2], "free")
    /\ thr' = Moved(t, [thr[t] EXCEPT !.pc = "tail"])
    /\ UNCHANGED <<LOG_BUFFER, saver, stats_db, aside, sw, adm, files, inodes, dirs, now,
                   CONFIG, package_blacklist, req>>

\* the outer with block ends: at its end, or when the database raised
LoadTail(t) ==
    /\ thr[t].op \in LoadOps /\ thr[t].pc \in {"select", "tail"}
    /\ LocksWith(LockOrder(thr[t].op)[1], "free")
    /\ thr' = Moved(t, [thr[t] EXCEPT
                           !.pc = "done",
                           !.result = IF thr[t].pc = "tail" THEN "True" ELSE "False"])
    /\ UNCHANGED <<LOG_BUFFER, saver, stats_db, aside, sw, adm, files, inodes, dirs, now,
                   CONFIG, BLACKLIST_PATTERNS, package_blacklist, bytes_served, req>>

LoadStep(t) ==
    \/ LoadCall(t)
    \/ LoadOuter(t)
    \/ LoadSelect(t)
    \/ LoadInner(t)
    \/ LoadAssign(t)
    \/ LoadTail(t)

\* add_log and get_config: one with block each
BlockOps == {"add_log", "get_config"}

BlockLock(op) == IF op = "add_log" THEN "log_lock" ELSE "config_lock"

BlockCall(t) ==
    /\ thr[t].pc = "idle"
    /\ \E op \in BlockOps :
          thr' = Moved(t, [thr[t] EXCEPT !.op = op, !.pc = "block_enter"])
    /\ UNCHANGED <<blacklist_lock, log_lock, config_lock, LOG_BUFFER, persist, aside,
                   sw, adm, files, inodes, dirs, now, CONFIG, BLACKLIST_PATTERNS,
                   package_blacklist, bytes_served, req>>

BlockEnter(t) ==
    /\ thr[t].op \in BlockOps /\ thr[t].pc = "block_enter"
    /\ HolderOf(BlockLock(thr[t].op)) = "free"
    /\ LocksWith(BlockLock(thr[t].op), t)
    /\ thr' = Moved(t, [thr[t] EXCEPT !.pc = "block"])
    /\ UNCHANGED <<LOG_BUFFER, saver, stats_db, aside, sw, adm, files, inodes, dirs, now,
                   CONFIG, BLACKLIST_PATTERNS, package_blacklist, bytes_served, req>>

\* LOG_BUFFER.append(entry) and pop(0) past MAX_LOG_BUFFER, or CONFIG.get;
\* the block ends
BlockBody(t) ==
    /\ thr[t].op \in BlockOps /\ thr[t].pc = "block"
    /\ LOG_BUFFER' = IF thr[t].op = "add_log"
                     THEN LET b == Append(LOG_BUFFER, t)
                          IN IF Len(b) > MAX_LOG_BUFFER THEN Tail(b) ELSE b
                     ELSE LOG_BUFFER
    /\ LocksWith(BlockLock(thr[t].op), "free")
    /\ thr' = Moved(t, [thr[t] EXCEPT !.pc = "done", !.result = "True"])
    /\ UNCHANGED <<saver, stats_db, aside, sw, adm, files, inodes, dirs, now,
                   CONFIG, BLACKLIST_PATTERNS, package_blacklist, bytes_served, req>>

BlockStep(t) == BlockCall(t) \/ BlockEnter(t) \/ BlockBody(t)

(* ----------------------------- map calls ------------------------------- *)
\* the distro arguments of the calls: "deb", "..", "/e", "a/b"
MapDistros ==
    { Debian,
      <<".", ".">>,
      <<"/", "e">>,
      <<"a", "/", "b">> }

MapPaths == {PathHello, PathPool}

\* a call of get_cache_path: the path it returns, the directories it makes
GetCachePath ==
    /\ \E distro \in MapDistros, path \in MapPaths :
          LET result == get_cache_path(distro, path)
          IN /\ call' = [op |-> "get_cache_path", distro |-> distro, path |-> path,
                         result |-> result]
             /\ dirs' = dirs \cup ParentDirs(result)
    /\ UNCHANGED <<core, persist, obs, sw, adm, files, inodes, now, CONFIG,
                   BLACKLIST_PATTERNS, package_blacklist, bytes_served, req>>

(* --------------------------- specification ----------------------------- *)
\* nobody holds a lock, the stats table holds what load_stats_from_db read
\* into STATS, no search and no call is under way
InitQuiet ==
    /\ stats_lock = "free"
    /\ db_lock = "free"
    /\ saver = IdleSaver
    /\ stats_db = bytes_served
    /\ obs = IdleSearch
    /\ call = NoCall
    /\ blacklist_lock = "free"
    /\ log_lock = "free"
    /\ config_lock = "free"
    /\ LOG_BUFFER = <<>>
    /\ thr = [t \in Thr |-> IdleThr]

\* an entry left by an earlier run: complete, and past its retention
OldStamp == Epoch - DefaultCacheDays - 1
OldEntry == [data |-> Body(1), atime |-> OldStamp, mtime |-> OldStamp]

\* the fingerprints an earlier run may have left an entry for
PreCached == {f \in Fingerprints : f.path = PathHello}

\* inode numbers of the entries present at the start
InoOfFp == CHOOSE g \in [PreCached -> 1..Cardinality(PreCached)] :
              \A a, b \in PreCached : a # b => g[a] # g[b]

FilesWith(cached) ==
    [p \in AllPaths |->
        IF \E f \in cached : CachePathOf(f) = p
        THEN InoOfFp[CHOOSE f \in cached : CachePathOf(f) = p]
        ELSE 0]

InitDisk ==
    \E cached \in SUBSET PreCached :
        /\ files = FilesWith(cached)
        /\ inodes = [i \in InoIds |->
                        IF \E f \in cached : InoOfFp[f] = i THEN OldEntry ELSE Blank]
        /\ dirs = {StorageSegs} \cup UNION {ParentDirs(CachePathOf(f)) : f \in cached}

\* load_blacklist_from_db: the list holds the rows of the table
LoadedFrom(pats) ==
    /\ package_blacklist \in SUBSET pats
    /\ BLACKLIST_PATTERNS \in
          {l \in UNION {[1..n -> pats] : n \in 0..Cardinality(pats)} :
              /\ {l[i] : i \in 1..Len(l)} = package_blacklist
              /\ Len(l) = Cardinality(package_blacklist)}

InitBlacklist == LoadedFrom(Patterns)

Init ==
    /\ InitDisk
    /\ now = Epoch
    /\ CONFIG = [cache_retention_enabled |-> TRUE, cache_days |-> DefaultCacheDays]
    /\ InitBlacklist
    /\ bytes_served = 0
    /\ req = [r \in Req |-> IdleReq]
    /\ sw = IdleSweep
    /\ adm = IdleAdmin
    /\ InitQuiet

\* for the interleavings, one recoverable outcome stands for the four: they
\* differ in last_error only
StreamOutcomes == Success \cup {"404"}

\* the steps of request thread r, for a fingerprint of fps and with upstream
\* outcomes drawn from outs
RequestStep(r, outs, fps) ==
    \/ ServeStart(r, fps)
    \/ manual_cache_package(r, fps)
    \/ Fetch(r, outs)
    \/ OpenTemp(r)
    \/ OpenError(r)
    \/ TeeChunk(r)
    \/ StreamError(r)
    \/ Publish(r)
    \/ Cleanup(r)
    \/ PlainChunk(r)
    \/ PlainEof(r)
    \/ PlainError(r)
    \/ Abort(r)

Next ==
    \/ \E r \in Req : RequestStep(r, StreamOutcomes, Fingerprints)
    \/ \E p \in Patterns : add_blacklist_pattern(p) /\ UNCHANGED call
    \/ \E p \in Patterns : remove_blacklist_pattern(p) /\ UNCHANGED call

Spec == Init /\ [][Next]_vars

\* one request on its own, with every outcome a mirror can have
InitFailover == Init

NextFailover == RequestStep(1, Outcomes, Fingerprints)

SpecFailover == InitFailover /\ [][NextFailover]_vars

\* the sweeper on its own over a tree of files of every age, the clock running
SweepStamps == {Epoch - DefaultCacheDays - 1, Epoch - DefaultCacheDays, Epoch}

Absent == [atime |-> 0, mtime |-> 0]

StampOptions(p) ==
    IF \E f \in Fingerprints : p = CachePathOf(f)
    THEN {Absent} \cup [atime : SweepStamps, mtime : SweepStamps]
    ELSE {Absent, [atime |-> OldStamp, mtime |-> OldStamp]}

PathIno == CHOOSE g \in [AllPaths -> 1..Cardinality(AllPaths)] :
              \A a, b \in AllPaths : a # b => g[a] # g[b]

\* the tree a sweep finds: every path absent or present with its stamps
SweepDisk ==
    /\ \E opt \in [AllPaths -> {Absent} \cup [atime : SweepStamps \cup {OldStamp},
                                               mtime : SweepStamps \cup {OldStamp}]] :
          /\ \A p \in AllPaths : opt[p] \in StampOptions(p)
          /\ files = [p \in AllPaths |-> IF opt[p] = Absent THEN 0 ELSE PathIno[p]]
          /\ inodes = [i \in InoIds |->
                          IF \E p \in AllPaths : PathIno[p] = i /\ opt[p] # Absent
                          THEN LET p == CHOOSE q \in AllPaths : PathIno[q] = i
                               IN [data |-> Body(1), atime |-> opt[p].atime,
                                   mtime |-> opt[p].mtime]
                          ELSE Blank]
    /\ dirs = UNION {ParentDirs(p) : p \in AllPaths}

InitSweep ==
    /\ SweepDisk
    /\ now = Epoch
    /\ CONFIG \in [cache_retention_enabled : BOOLEAN, cache_days : {DefaultCacheDays}]
    /\ BLACKLIST_PATTERNS = <<>>
    /\ package_blacklist = {}
    /\ bytes_served = 0
    /\ req = [r \in Req |-> IdleReq]
    /\ sw = IdleSweep
    /\ adm = IdleAdmin
    /\ InitQuiet

NextSweep == SweepStep \/ Tick

SpecSweep == InitSweep /\ [][NextSweep]_vars

\* the sweeper next to one request
NextRace == RequestStep(1, StreamOutcomes, Fingerprints) \/ SweepStep

SpecRace == Init /\ [][NextRace]_vars

\* the admin's delete over files inside and outside the storage root
DeleteIno == CHOOSE g \in [DeletePaths -> 1..Cardinality(DeletePaths)] :
                \A a, b \in DeletePaths : a # b => g[a] # g[b]

InitDelete ==
    /\ \E present \in SUBSET DeletePaths :
          files = [p \in DeletePaths |-> IF p \in present THEN DeleteIno[p] ELSE 0]
    /\ inodes = [i \in InoIds |->
                    IF \E p \in DeletePaths : files[p] = i THEN OldEntry ELSE Blank]
    /\ dirs = UNION {{SubSeq(p.dir, 1, n) : n \in 1..Len(p.dir)} : p \in DeletePaths}
    /\ now = Epoch
    /\ CONFIG = [cache_retention_enabled |-> TRUE, cache_days |-> DefaultCacheDays]
    /\ BLACKLIST_PATTERNS = <<>>
    /\ package_blacklist = {}
    /\ bytes_served = 0
    /\ req = [r \in Req |-> IdleReq]
    /\ sw = IdleSweep
    /\ adm = IdleAdmin
    /\ InitQuiet

NextDelete == delete_cached_file

SpecDelete == InitDelete /\ [][NextDelete]_vars

\* calls of get_cache_path with distro names of every shape
NextMap == GetCachePath

SpecMap == Init /\ [][NextMap]_vars

\* calls of parse_packages_file on every text of up to MaxLines lines
NextParse == ParsePackagesFile

SpecParse == Init /\ [][NextParse]_vars

\* a download of the suite's index next to a search
IndexFingerprints == {[distro |-> Debian, path |-> PathPackages]}

IndexPaths ==
    {CachePathOf(f) : f \in IndexFingerprints \cup Fingerprints}
       \cup {TempPathOf(f) : f \in IndexFingerprints}

InitObserve ==
    /\ files = [p \in IndexPaths |-> 0]
    /\ inodes = [i \in InoIds |-> Blank]
    /\ dirs = {StorageSegs}
    /\ now = Epoch
    /\ CONFIG = [cache_retention_enabled |-> TRUE, cache_days |-> DefaultCacheDays]
    /\ BLACKLIST_PATTERNS = <<>>
    /\ package_blacklist = {}
    /\ bytes_served = 0
    /\ req = [r \in Req |-> IdleReq]
    /\ sw = IdleSweep
    /\ adm = IdleAdmin
    /\ InitQuiet

NextObserve == RequestStep(1, StreamOutcomes, IndexFingerprints) \/ SearchStep

SpecObserve == InitObserve /\ [][NextObserve]_vars

\* two requests for "pool/h.tmp" and "pool/h", the first of them cached by
\* an earlier run or not
TmpFingerprints == [distro : Distros, path : {PathTmp, PathBare}]

TmpPaths ==
    {CachePathOf(f) : f \in TmpFingerprints} \cup {TempPathOf(f) : f \in TmpFingerprints}

InitTemp ==
    /\ \E cached \in BOOLEAN :
          LET entry == CachePathOf([distro |-> Debian, path |-> PathTmp])
          IN /\ files = [p \in TmpPaths |-> IF cached /\ p = entry THEN 1 ELSE 0]
             /\ inodes = [i \in InoIds |-> IF cached /\ i = 1 THEN OldEntry ELSE Blank]
             /\ dirs = {StorageSegs} \cup (IF cached THEN ParentDirs(entry) ELSE {})
    /\ now = Epoch
    /\ CONFIG = [cache_retention_enabled |-> TRUE, cache_days |-> DefaultCacheDays]
    /\ BLACKLIST_PATTERNS = <<>>
    /\ package_blacklist = {}
    /\ bytes_served = 0
    /\ req = [r \in Req |-> IdleReq]
    /\ sw = IdleSweep
    /\ adm = IdleAdmin
    /\ InitQuiet

NextTemp == \E r \in Req : RequestStep(r, StreamOutcomes, TmpFingerprints)

SpecTemp == InitTemp /\ [][NextTemp]_vars

\* two threads in the admin calls, over two patterns, from a list that
\* holds the rows of the table
AdminPatterns == {PatGlob, PatTranslations}

InitAdmin ==
    /\ InitDisk
    /\ now = Epoch
    /\ CONFIG = [cache_retention_enabled |-> TRUE, cache_days |-> DefaultCacheDays]
    /\ LoadedFrom(AdminPatterns)
    /\ bytes_served = 0
    /\ req = [r \in Req |-> IdleReq]
    /\ sw = IdleSweep
    /\ adm = IdleAdmin
    /\ InitQuiet

NextAdmin == \E t \in Thr : AdminStep(t, AdminPatterns)

SpecAdmin == InitAdmin /\ [][NextAdmin]_vars

\* the blacklist on its own: admin calls and lookups over three patterns
InitMatcher ==
    /\ InitDisk
    /\ now = Epoch
    /\ CONFIG = [cache_retention_enabled |-> TRUE, cache_days |-> DefaultCacheDays]
    /\ LoadedFrom(MatchPatterns)
    /\ bytes_served = 0
    /\ req = [r \in Req |-> IdleReq]
    /\ sw = IdleSweep
    /\ adm = IdleAdmin
    /\ InitQuiet

NextMatcher ==
    \/ \E p \in MatchPatterns :
          add_blacklist_pattern(p) /\ call' = Logged("add_blacklist_pattern", p)
    \/ \E p \in MatchPatterns :
          remove_blacklist_pattern(p) /\ call' = Logged("remove_blacklist_pattern", p)
    \/ IsBlacklisted

SpecMatcher == InitMatcher /\ [][NextMatcher]_vars

\* two requests next to the stats persister: downloads that are cached, not
\* cached (the blacklist holds a pattern) and partial, with the counter
\* starting at a value that takes it to a multiple of 10 MiB
StatsOutcomes == {"200", "206"}

InitStats ==
    /\ InitDisk
    /\ now = Epoch
    /\ CONFIG = [cache_retention_enabled |-> TRUE, cache_days |-> DefaultCacheDays]
    /\ BLACKLIST_PATTERNS = <<PatGlob>>
    /\ package_blacklist = {PatGlob}
    /\ bytes_served \in {0, TenMiB - BodyLen}
    /\ req = [r \in Req |-> IdleReq]
    /\ sw = IdleSweep
    /\ adm = IdleAdmin
    /\ InitQuiet

NextStats ==
    \/ \E r \in Req : RequestStep(r, StatsOutcomes, Fingerprints)
    \/ SaveStep

SpecStats == InitStats /\ [][NextStats]_vars

\* every kind of thread of the core at once: two threads that each call
\* one of the functions, a request that streams a download into the cache
\* (with no error on its way), and the stats saver the request starts
CorePatterns == {PatGlob}
CoreFilenames == {FnVimDoc}
CoreFingerprints == {[distro |-> Debian, path |-> PathHello]}

InitCore ==
    /\ InitDisk
    /\ now = Epoch
    /\ CONFIG = [cache_retention_enabled |-> TRUE, cache_days |-> DefaultCacheDays]
    /\ LoadedFrom(CorePatterns)
    /\ bytes_served = TenMiB - BodyLen
    /\ req = [r \in Req |-> IdleReq]
    /\ sw = IdleSweep
    /\ adm = IdleAdmin
    /\ InitQuiet

CoreCalls ==
    \E t \in Thr :
        \/ LookupStep(t, CoreFilenames)
        \/ AdminStep(t, CorePatterns)
        \/ LoadStep(t)
        \/ BlockStep(t)

NextCore ==
    \/ CoreCalls
    \/ ServeStart(1, CoreFingerprints)
    \/ Fetch(1, {"200"})
    \/ OpenTemp(1)
    \/ TeeChunk(1)
    \/ Publish(1)
    \/ SaveStep

\* a thread that is in a call and can go on does go on, and so does the
\* stats saver; nothing is asked of the request
SpecCore ==
    InitCore /\ [][NextCore]_vars /\ WF_vars(CoreCalls) /\ WF_vars(SaveStep)

\* lookups by two threads over a list that holds a pattern that does not
\* compile, in every position
InitLookup ==
    /\ InitDisk
    /\ now = Epoch
    /\ CONFIG = [cache_retention_enabled |-> TRUE, cache_days |-> DefaultCacheDays]
    /\ LoadedFrom(LookupPatterns)
    /\ bytes_served = 0
    /\ req = [r \in Req |-> IdleReq]
    /\ sw = IdleSweep
    /\ adm = IdleAdmin
    /\ InitQuiet

NextLookup == \E t \in Thr : LookupStep(t, Filenames)

SpecLookup == InitLookup /\ [][NextLookup]_vars

\* the sweeper alone, over a tree where one call on one entry raises
TreeDirs == UNION {ParentDirs(p) : p \in AllPaths}

\* the calls that can raise: scandir of a directory, the type test of an
\* entry, the stat and the removal of a file
FaultOptions ==
    {{}} \cup {{[op |-> "scandir", dir |-> d, name |-> <<>>]} : d \in TreeDirs}
         \cup {{[op |-> "is_dir", dir |-> d, name |-> <<>>]} : d \in TreeDirs \ {StorageSegs}}
         \cup {{[op |-> o, dir |-> p.dir, name |-> p.name]} :
                   o \in {"is_dir", "stat", "remove"}, p \in AllPaths}

InitFaulty ==
    /\ SweepDisk
    /\ now = Epoch
    /\ CONFIG = [cache_retention_enabled |-> TRUE, cache_days |-> DefaultCacheDays]
    /\ BLACKLIST_PATTERNS = <<>>
    /\ package_blacklist = {}
    /\ bytes_served = 0
    /\ req = [r \in Req |-> IdleReq]
    /\ sw \in {[IdleSweep EXCEPT !.faults = fs] : fs \in FaultOptions}
    /\ adm = IdleAdmin
    /\ InitQuiet

SpecFaulty == InitFaulty /\ [][SweepStep]_vars

(* ------------------------------- claims -------------------------------- *)

\* a request whose cacheable 200 body was streamed to its end
CleanEof(R) ==
    /\ R.pc = "done" /\ R.status = "200" /\ R.should_cache
    /\ R.result = "eof" /\ R.k = Len(R.body)

\* C1: in every reachable state a file at a mapped cache path holds the
\* complete body some mirror served with a 200; a partly written body is never
\* visible at the cache path.
C1_VisibleEntryComplete ==
    \A f \in Fingerprints :
        Exists(CachePathOf(f)) => \E m \in Mirrors : Content(CachePathOf(f)) = Body(m)

\* C2: when two serve requests for one fingerprint both stream the same
\* upstream body to clean EOF, under every interleaving both clients have the
\* complete body, the bodies are equal, the cache path holds the complete
\* body and no temp file is left.
C2_TwoMisses ==
    LET a == req[1]
        b == req[2]
    IN (/\ a.kind = "serve" /\ b.kind = "serve" /\ a.fp = b.fp
        /\ CleanEof(a) /\ CleanEof(b) /\ a.src = b.src)
       => /\ a.delivered = Body(a.src)
          /\ b.delivered = a.delivered
          /\ Exists(CachePathOf(a.fp))
          /\ Content(CachePathOf(a.fp)) = Body(a.src)
          /\ ~Exists(TempPathOf(a.fp))

\* the two requests of C2 overlapped: one of them lost the rename
C2_Witness ==
    LET a == req[1]
        b == req[2]
    IN /\ a.kind = "serve" /\ b.kind = "serve" /\ a.fp = b.fp
       /\ CleanEof(a) /\ CleanEof(b) /\ a.src = b.src
       /\ a.log = "CACHED" /\ b.log = "Error caching"
       /\ Content(CachePathOf(a.fp)) = Body(a.src)

\* C3: when the client disconnects while a cacheable 200 body is streamed
\* (the generator is closed at a yield of the tee loop), the temp file is
\* gone after that step and the step publishes nothing at the cache path.
C3_AbortRemovesTemp ==
    [][\A r \in Req :
          (req[r].pc = "tee" /\ req'[r].result = "aborted")
          => /\ files'[TempPathOf(req[r].fp)] = 0
             /\ files'[CachePathOf(req[r].fp)] = files[CachePathOf(req[r].fp)]]_vars

\* C4: mirrors are contacted in listed order, each only after the one before
\* it failed recoverably; the first 200, 206 or 304 is the response and ends the
\* loop; with mirrors [a, b], a answering 503 and b answering 200 for a file
\* that is not blacklisted, the response is 200 with b's body and, once
\* drained, the cache entry holds b's body.
C4_ListedOrder ==
    \A r \in Req :
        LET R == req[r]
            c == R.contacted
            n == Len(c)
        IN /\ \A j \in 1..n : c[j][1] = Urls[j]
           /\ \A j \in 1..(n - 1) : c[j][2] \in Recoverable
           /\ (n > 0 /\ c[n][2] \in Success)
              => /\ R.status = c[n][2]
                 /\ R.pc # "fetch"
                 /\ R.status = "200" => R.body = Body(c[n][1])
                 /\ R.status = "206" => R.body = PartialBody(c[n][1])
                 /\ R.status = "304" => R.body = <<>>
                 /\ IsPrefix(R.delivered, R.body)
           /\ (c = <<<<Urls[1], "503">>, <<Urls[2], "200">>>> /\ CleanEof(R))
              => /\ R.delivered = Body(Urls[2])
                 /\ Exists(CachePathOf(R.fp))
                 /\ Content(CachePathOf(R.fp)) = Body(Urls[2])

\* the scenario of C4 has run: a answered 503, b answered 200, the body is drained
C4_Witness ==
    /\ req[1].contacted = <<<<Urls[1], "503">>, <<Urls[2], "200">>>>
    /\ CleanEof(req[1])
    /\ Content(CachePathOf(req[1].fp)) = Body(Urls[2])

\* what an earlier run left on disk, untouched
DiskUntouched ==
    \A p \in AllPaths :
        files[p] # 0 => /\ \E f \in PreCached : p = CachePathOf(f)
                        /\ inodes[files[p]] = OldEntry

\* C5: the response is 502 exactly when every mirror of the list was tried and
\* failed recoverably; its body carries the error of the last mirror tried; and
\* the request then created no cache entry and no temp file and left the
\* files that were there unchanged.
C5_AllFailed ==
    \A r \in Req :
        LET R == req[r]
            c == R.contacted
        IN /\ R.status = "502"
              <=> (Len(c) = Len(Urls) /\ \A j \in 1..Len(c) : c[j][2] \in Recoverable)
           /\ R.status = "502"
              => /\ R.error_body = LastError(c[Len(c)][2])
                 /\ R.last_error = R.error_body
                 /\ DiskUntouched

\* every mirror answered 404 and an older entry is on disk
C5_Witness ==
    /\ req[1].status = "502"
    /\ \A j \in 1..Len(Urls) : req[1].contacted[j] = <<Urls[j], "404">>
    /\ \E f \in PreCached : Exists(CachePathOf(f))

\* C6 as stated: whenever the blacklist matches a filename, no cache file
\* exists at the cache path of its fingerprint.
C6_NoFileWhileBlacklisted ==
    \A f \in Fingerprints :
        is_blacklisted(Basename(f.path)) => ~Exists(CachePathOf(f))

\* C6 as amended: a request decides at its start, from the blacklist as it is
\* then, and a request that found its filename blacklisted changes no file;
\* so a file is at the cache path of a matched filename only if a request that
\* started while it was not matched put it there.
C6_BlacklistedRequestWritesNothing ==
    /\ [][\A r \in Req :
             /\ (req[r].pc = "idle" /\ req'[r].pc = "fetch")
                => req'[r].should_cache =
                      ~IsBlacklistedIn(BLACKLIST_PATTERNS, Basename(req'[r].fp.path))
             /\ (req'[r] # req[r] /\ ~req'[r].should_cache)
                => (files' = files /\ inodes' = inodes)]_vars
    /\ [](\A f \in Fingerprints :
             (\A r \in Req : req[r].fp = f => ~req[r].should_cache)
             => ~Exists(CachePathOf(f)) \/ f \in PreCached)

\* a blacklisted filename was streamed to the end and nothing was written
C6_Witness ==
    \E r \in Req :
        /\ req[r].pc = "done" /\ req[r].status = "200" /\ ~req[r].should_cache
        /\ is_blacklisted(Basename(req[r].fp.path))
        /\ req[r].delivered = Body(req[r].src)
        /\ ~Exists(CachePathOf(req[r].fp)) /\ ~Exists(TempPathOf(req[r].fp))

\* C7: whenever prefetch has returned ok = true, a valid cache entry exists
\* at the mapped path.
C7_PrefetchOkMeansCached ==
    \A r \in Req :
        (req[r].kind = "prefetch" /\ req[r].ok = "true")
        => is_cache_valid(CachePathOf(req[r].fp))

\* rel_path, joined to the storage root and resolved, lies outside the root
EscapesRoot(rel_path) ==
    ~IsPrefix(StorageSegs, Normal(PathJoin(StorageSegs, rel_path), <<>>))

\* C8: delete(rel) with a rel whose resolved absolute path lies outside the
\* resolved storage root returns false and removes or changes no file.
C8_TraversalRefused ==
    [][(adm.pc = "idle" /\ adm'.pc = "done" /\ EscapesRoot(adm'.rel_path))
       => (adm'.result = FALSE /\ files' = files /\ inodes' = inodes)]_vars

\* max(atime, mtime) of an inode
MaxStamp(i) == IF i.atime > i.mtime THEN i.atime ELSE i.mtime

\* the file at p was idle for more than cache_days when the sweep started
PastRetention(p) ==
    MaxStamp(inodes[files[p]]) < sw.started_at - CONFIG.cache_days

\* C9: in a sweep with nothing else touching the tree, every file the sweep
\* deletes has max(atime, mtime) < sweep_start - cache_days, no file past that
\* threshold is left when the sweep ends, and with retention disabled the
\* sweep deletes nothing.
C9_SweepByAge ==
    /\ [][\A p \in DOMAIN files :
             (files[p] # 0 /\ files'[p] = 0)
             => (CONFIG.cache_retention_enabled /\ PastRetention(p))]_vars
    /\ [](sw.pc = "done"
          => IF CONFIG.cache_retention_enabled
             THEN \A p \in DOMAIN files : files[p] # 0 => ~PastRetention(p)
             ELSE sw.cleaned_count = 0)

\* a sweep has ended during which the clock moved: it deleted a file, and left
\* one whose atime is past the threshold and whose mtime is not
C9_Witness ==
    /\ sw.pc = "done" /\ sw.cleaned_count >= 1 /\ now > sw.started_at
    /\ \E p \in DOMAIN files :
          /\ files[p] # 0
          /\ inodes[files[p]].atime < sw.cutoff_time
          /\ inodes[files[p]].mtime >= sw.cutoff_time

\* C10: the file a sweep removes is the file it took the stat of: an entry
\* renamed over the path after the stat is not removed.
C10_StatThenRemove ==
    [][(sw.pc = "remove" /\ sw'.pc = "walk" /\ files[sw.cur] # 0 /\ files'[sw.cur] = 0)
       => files[sw.cur] = sw.stat.ino]_vars

\* C11: map(distro, path) lies under the storage root, at
\* <storage_root>/<distro>/<H[0:2]>/<H>_<basename> with 'index' for an empty
\* basename, for every distro, '..', one holding '/' and an absolute one
\* included; the directories it makes lie under the storage root too.
C11_MapUnderRoot ==
    call.op = "get_cache_path"
    => /\ IsPrefix(StorageSegs, Normal(call.result.dir, <<>>))
       /\ call.result.dir =
             StorageSegs \o KeptSegs(SplitSlash(call.distro))
                         \o <<SubSeq(Md5(call.path), 1, 2)>>
       /\ call.result.name =
             Md5(call.path) \o <<"_">>
                \o (IF Basename(call.path) = <<>> THEN <<"i", "n", "d", "e", "x">>
                    ELSE Basename(call.path))
       /\ \A d \in ParentDirs(call.result) : IsPrefix(StorageSegs, d)

\* lines i..j of the text are a stanza: a longest run of lines that are not blank
IsStanza(text, i, j) ==
    /\ i <= j
    /\ \A k \in i..j : Strip(text[k]) # <<>>
    /\ i = 1 \/ Strip(text[i - 1]) = <<>>
    /\ j = Len(text) \/ Strip(text[j + 1]) = <<>>

\* lines i..j give the field key a value
HasField(text, i, j, key) ==
    \E k \in i..j : HasColon(text[k]) /\ SplitColon(text[k]).key = key

\* the value lines i..j give the field key: that of the last such line
FieldOf(text, i, j, key) ==
    LET k == CHOOSE n \in i..j :
                 /\ HasColon(text[n]) /\ SplitColon(text[n]).key = key
                 /\ \A m \in (n + 1)..j :
                        ~(HasColon(text[m]) /\ SplitColon(text[m]).key = key)
    IN SplitColon(text[k]).val

\* C16: for every stanza of a scanned Packages file that has a Package and a
\* Filename field and whose Package contains the query, whatever the case,
\* a hit with path = Filename is emitted, wherever the stanza stands in the
\* file, the last stanza of a file that does not end with a blank line included.
C16_EveryStanzaEmitted ==
    call.op = "parse_packages_file"
    => \A i, j \in 1..Len(call.text) :
          ( /\ IsStanza(call.text, i, j)
            /\ HasField(call.text, i, j, KeyPackage)
            /\ HasField(call.text, i, j, KeyFilename)
            /\ Contains(LowerStr(FieldOf(call.text, i, j, KeyPackage)),
                        LowerStr(call.query)) )
          => \E n \in 1..Len(call.result) :
                /\ call.result[n].path = FieldOf(call.text, i, j, KeyFilename)
                /\ call.result[n].name = FieldOf(call.text, i, j, KeyPackage)

\* C12: no observer reads bytes from a temp file: while a cache write is in
\* flight, the index search opens no temp file and returns no result taken
\* from its partial contents.
C12_NoTempFileRead ==
    \A p \in obs.opened : \A f \in IndexFingerprints : p # TempPathOf(f)

\* C13: when a mirror answers 206 the response is 206 with that mirror's
\* body, no temp file and no cache entry is created or changed at any point
\* of the stream, and bytes_served grows by the number of chunks streamed to
\* the client.
C13_PartialNotCached ==
    /\ [][\A r \in Req :
             req'[r].status = "206"
             => (files' = files /\ inodes' = inodes)]_vars
    /\ [](\A r \in Req :
             req[r].status = "206"
             => /\ req[r].contacted[Len(req[r].contacted)] = <<req[r].src, "206">>
                /\ IsPrefix(req[r].delivered, PartialBody(req[r].src))
                /\ req[r].result = "eof" => req[r].delivered = PartialBody(req[r].src)
                /\ bytes_served = stats_db + Len(req[r].delivered))

\* a 206 answer was streamed to its end
C13_Witness ==
    /\ req[1].kind = "serve" /\ req[1].status = "206" /\ req[1].result = "eof"
    /\ Len(req[1].delivered) >= 1
    /\ bytes_served = stats_db + Len(req[1].delivered)
    /\ \A p \in DOMAIN files : p = TempPathOf(req[1].fp) => files[p] = 0

\* the call just made is remove(p), the one before it add(p)
AddThenRemove ==
    /\ call.op = "remove_blacklist_pattern"
    /\ call.prev.op = "add_blacklist_pattern"
    /\ call.prev.pattern = call.pattern

SameMatcher(a, b) ==
    \A filename \in Filenames : IsBlacklistedIn(a, filename) = IsBlacklistedIn(b, filename)

\* C14 as stated: for every initial blacklist and every pattern p, in the
\* blacklist already or not, add(p) followed by remove(p) leaves is_blacklisted
\* answering for every filename as before the two calls.
C14_AddRemoveRestores ==
    AddThenRemove => SameMatcher(BLACKLIST_PATTERNS, call.prev.before)

\* C14: for every initial blacklist and every pattern p that is not in it,
\* add(p) followed by remove(p) leaves is_blacklisted answering for every
\* filename as before the two calls (the list and the table are as before);
\* when p is in the blacklist already, the two calls leave the blacklist
\* without p.
C14_AddRemoveRestoresNew ==
    AddThenRemove
    => /\ ~InList(BLACKLIST_PATTERNS, call.pattern)
       /\ call.pattern \notin package_blacklist
       /\ ~InList(call.prev.before, call.pattern)
            => /\ BLACKLIST_PATTERNS = call.prev.before
               /\ SameMatcher(BLACKLIST_PATTERNS, call.prev.before)
       /\ InList(call.prev.before, call.pattern)
            => \A q \in MatchPatterns \ {call.pattern} :
                  InList(BLACKLIST_PATTERNS, q) = InList(call.prev.before, q)

\* a new pattern was added to a blacklist that holds others and removed again
C14_Witness ==
    /\ AddThenRemove
    /\ ~InList(call.prev.before, call.pattern)
    /\ Len(call.prev.before) >= 1
    /\ \E filename \in Filenames : IsBlacklistedIn(call.prev.before, filename)
    /\ BLACKLIST_PATTERNS = call.prev.before

\* the pieces of a pattern between its '*'
RECURSIVE SplitStar(_)
SplitStar(pattern) ==
    IF pattern = <<>> THEN << <<>> >>
    ELSE LET rest == SplitStar(Tail(pattern))
         IN IF Head(pattern) = "*" THEN << <<>> >> \o rest
            ELSE << <<Head(pattern)>> \o rest[1] >> \o Tail(rest)

\* the pieces occur in str from position from on, in their order and without
\* overlap, whatever the case of the letters
RECURSIVE OccurInOrder(_, _, _)
OccurInOrder(pieces, str, from) ==
    IF pieces = <<>> THEN TRUE
    ELSE LET piece == Head(pieces)
         IN \E k \in from..(Len(str) - Len(piece) + 1) :
               /\ LowerStr(SubSeq(str, k, k + Len(piece) - 1)) = LowerStr(piece)
               /\ OccurInOrder(Tail(pieces), str, k + Len(piece))

\* a pattern with '*' is an unanchored search with '.' literal and '*' any
\* stretch; another pattern is found as a substring; both whatever the case
RuleMatches(pattern, filename) ==
    IF \E i \in 1..Len(pattern) : pattern[i] = "*"
    THEN OccurInOrder(SplitStar(pattern), filename, 1)
    ELSE \E k \in 1..(Len(filename) - Len(pattern) + 1) :
            LowerStr(SubSeq(filename, k, k + Len(pattern) - 1)) = LowerStr(pattern)

SpecExample == <<PatDocGlob, PatTranslations>>

\* C15 as stated: with the patterns ["*-doc_*.deb", "translations"],
\* is_blacklisted("vim-doc_9.0.deb") and is_blacklisted("i18n/Translation-en.gz")
\* are true and is_blacklisted("hello_2.10.deb") is false.
C15_ExampleAsStated ==
    (call.op = "is_blacklisted" /\ call.patterns = SpecExample)
    => /\ call.filename = FnVimDoc => call.result
       /\ call.filename = FnTranslation => call.result
       /\ call.filename = FnHello => ~call.result

\* C15: is_blacklisted(filename) is true exactly when some pattern of the list
\* matches, a pattern with '*' as an unanchored regex search ('.' literal, '*'
\* as '.*'), any other pattern as a substring, both whatever the case; with
\* the patterns ["*-doc_*.deb", "translations"] that makes "vim-doc_9.0.deb"
\* blacklisted, and "hello_2.10.deb" and "i18n/Translation-en.gz" not
\* ("translations" is no substring of "i18n/translation-en.gz").
C15_MatcherRule ==
    call.op = "is_blacklisted"
    => /\ call.result =
             (\E i \in 1..Len(call.patterns) : RuleMatches(call.patterns[i], call.filename))
       /\ call.patterns = SpecExample
            => /\ call.filename = FnVimDoc => call.result
               /\ call.filename = FnTranslation => ~call.result
               /\ call.filename = FnHello => ~call.result

\* the lookup of "i18n/Translation-en.gz" under the two patterns
C15_Witness ==
    /\ call.op = "is_blacklisted"
    /\ call.patterns = SpecExample
    /\ call.filename = FnTranslation
    /\ ~call.result

\* C17: at every moment each temp file is open for writing by at most one
\* cache writer: two requests whose cache writes overlap, two for the same
\* fingerprint included, never write to the same temp file.
C17_TempFilePrivate ==
    \A r1, r2 \in Req :
        (r1 # r2 /\ req[r1].pc = "tee" /\ req[r2].pc = "tee")
        => req[r1].fd # req[r2].fd

\* C18: if an error occurs while a cacheable 200 body is streamed (the
\* upstream read or the write fails, the temp file cannot be opened, the rename
\* fails), then when the generator ends the temp file does not exist and the
\* request has renamed nothing to the cache path: it publishes no entry.
C18_ErrorLeavesNothing ==
    /\ [][\A r \in Req :
             LET temp_path == TempPathOf(req[r].fp)
                 cache_path == CachePathOf(req[r].fp)
             IN /\ (req[r].pc # "except" /\ req'[r].pc = "except")
                     => files'[cache_path] = files[cache_path]
                /\ (req[r].pc = "except" /\ req'[r].pc = "done")
                     => /\ files'[temp_path] = 0
                        /\ files'[cache_path] = files[cache_path]
                        /\ req'[r].log = "Error caching"]_vars
    /\ [](\A r \in Req : req[r].pc = "except" => req[r].log # "CACHED")

\* a serve whose body broke after its first chunk has ended: no temp file,
\* no cache entry
C18_Witness ==
    \E r \in Req :
        /\ req[r].kind = "serve" /\ req[r].pc = "done"
        /\ req[r].log = "Error caching"
        /\ req[r].k >= 1 /\ req[r].k < Len(req[r].body)
        /\ files[TempPathOf(req[r].fp)] = 0
        /\ files[CachePathOf(req[r].fp)] = 0

\* the chunks handed to clients so far
SumDelivered == Len(req[1].delivered) + Len(req[2].delivered)

\* request r is at the point of counting a chunk
NeedsStatsLock(r) ==
    req[r].pc \in {"tee", "plain"} /\ req[r].k < Len(req[r].body)

\* C19: in every interleaving of streamed responses (cached 200, uncached 200
\* and 206) bytes_served grows in every step by the chunks handed to clients
\* in that step, so it is its initial value plus all chunks handed out; no
\* step counts while another thread holds the stats mutex, none is lost.
C19_EveryChunkCounted ==
    /\ [][bytes_served' - bytes_served = SumDelivered' - SumDelivered]_vars
    /\ [][bytes_served' # bytes_served => stats_lock = "free"]_vars
    /\ [](saver.pc = "executed" => saver.tx = bytes_served)

\* a cached 200 and a 206 or uncached 200 were streamed to their ends while a
\* save of the stats was under way
C19_Witness ==
    /\ req[1].result = "eof" /\ req[1].status = "200" /\ req[1].should_cache
    /\ req[2].result = "eof" /\ (req[2].status = "206" \/ ~req[2].should_cache)
    /\ Len(req[2].delivered) >= 1
    /\ bytes_served = TenMiB - BodyLen + SumDelivered
    /\ saver.pc = "unlocked"

\* C20: no thread holds the stats mutex while it does database or disk I/O:
\* a streaming request at its per-chunk count never waits for a statement of
\* the stats persister on the database.
C20_NoDatabaseUnderStatsLock ==
    \A r \in Req :
        NeedsStatsLock(r) => ~(stats_lock = "saver" /\ saver.pc = "locked")

\* a pattern is_blacklisted cannot evaluate
Malformed(pattern) ==
    (\E i \in 1..Len(pattern) : pattern[i] = "*") /\ ~Compiles(pattern)

\* some pattern of the list that can be evaluated matches
WellFormedMatch(patterns, filename) ==
    \E i \in 1..Len(patterns) :
        ~Malformed(patterns[i]) /\ PatternMatches(patterns[i], filename)

\* C21: is_blacklisted never raises; a pattern that cannot be compiled is
\* skipped and the patterns after it are still evaluated, so the answer is
\* the answer for the list without the malformed patterns, and the blacklist
\* mutex is held only inside the loop and released when the call returns.
C21_MalformedSkipped ==
    \A t \in Thr :
        /\ blacklist_lock = t => thr[t].pc = "loop"
        /\ (thr[t].op = "is_blacklisted" /\ thr[t].pc = "done") =>
              /\ thr[t].result \in {"True", "False"}
              /\ (thr[t].result = "True") =
                     WellFormedMatch(thr[t].seen, thr[t].filename)
              /\ IsBlacklistedIn(thr[t].seen, thr[t].filename) =
                     WellFormedMatch(thr[t].seen, thr[t].filename)

\* a lookup returned True on a pattern that stands behind a malformed one,
\* while the other thread was waiting for the mutex
C21_Witness ==
    /\ thr["a"].op = "is_blacklisted" /\ thr["a"].pc = "done" /\ thr["a"].result = "True"
    /\ Len(thr["a"].seen) >= 2
    /\ Malformed(thr["a"].seen[1])
    /\ ~WellFormedMatch(<<thr["a"].seen[1]>>, thr["a"].filename)
    /\ blacklist_lock = "free"
    /\ thr["b"].pc = "enter"

\* an error of the file system touches the path p: a call on p itself, or
\* the scan of a directory above it
FaultOn(p) ==
    \E f \in sw.faults :
        \/ f.dir = p.dir /\ f.name = p.name
        \/ /\ f.name = <<>>
           /\ Len(f.dir) <= Len(p.dir)
           /\ SubSeq(p.dir, 1, Len(f.dir)) = f.dir

\* C22: a sweep ends on every tree, and an error on one file or directory
\* does not stop it: when it ends, every expired file is gone except those
\* the error is about (the file itself, or files under the directory that
\* could not be read or told to be one).
C22_SweepSkipsOnlyFailed ==
    sw.pc = "done" =>
        \A p \in DOMAIN files :
            (files[p] # 0 /\ PastRetention(p)) => FaultOn(p)

\* C23: for every request path (a basename with no extension, or ending in
\* ".tmp") the temp path of the cache writer is neither the cache path of
\* the request nor that of another fingerprint: the file a request has open
\* for writing is never behind a cache path, and the cleanup after a failure
\* removes no cache entry.
C23_TempApartFromCache ==
    /\ [](\A r \in Req, f \in TmpFingerprints :
            req[r].fd # 0 => files[CachePathOf(f)] # req[r].fd)
    /\ [][\A r \in Req, f \in TmpFingerprints :
             (req[r].pc = "except" /\ req'[r].pc # "except")
             => files'[CachePathOf(f)] = files[CachePathOf(f)]]_vars

\* C24: once all concurrent add_blacklist_pattern and
\* remove_blacklist_pattern calls have returned, none having failed, the
\* in-memory list holds exactly the patterns of the blacklist table, each
\* once.
C24_ListIsTable ==
    (\A t \in Thr : thr[t].pc = "done" /\ thr[t].result = "True") =>
        /\ {BLACKLIST_PATTERNS[i] : i \in 1..Len(BLACKLIST_PATTERNS)} = package_blacklist
        /\ Len(BLACKLIST_PATTERNS) = Cardinality(package_blacklist)

\* the threads that hold a lock over more than one step
Agents == Thr \cup {"saver"}

\* the lock x is waiting for, "none" when it waits for none
WaitsFor(x) ==
    IF x = "saver"
    THEN IF saver.pc = "idle" /\ saver.pending > 0 THEN "db_lock"
         ELSE IF saver.pc = "connected" THEN "stats_lock"
         ELSE "none"
    ELSE CASE thr[x].pc = "enter" -> "blacklist_lock"
           [] thr[x].pc = "db_enter" -> "db_lock"
           [] thr[x].pc = "mem_enter" -> "blacklist_lock"
           [] thr[x].pc = "outer_enter" -> LockOrder(thr[x].op)[1]
           [] thr[x].pc = "inner_enter" -> LockOrder(thr[x].op)[2]
           [] thr[x].pc = "block_enter" -> BlockLock(thr[x].op)
           [] OTHER -> "none"

Holds(x) == {L \in LockNames : HolderOf(L) = x}

\* C25: no interleaving of the threads of the core deadlocks: db_lock is
\* taken only by a thread that holds no lock, every other lock only by a
\* thread that holds nothing but db_lock; no set of threads waits for locks
\* held within the set; and every lock that is held is released in the end
\* (each thread makes one call, so in the end no lock is held any more).
C25_NoDeadlock ==
    /\ [](\A x \in Agents :
            /\ WaitsFor(x) = "db_lock" => Holds(x) = {}
            /\ WaitsFor(x) \notin {"none", "db_lock"} => Holds(x) \subseteq {"db_lock"})
    /\ [](\A S \in SUBSET Agents :
            S # {} => \E x \in S :
                         WaitsFor(x) = "none" \/ HolderOf(WaitsFor(x)) \notin S)
    /\ <>[](\A L \in LockNames : HolderOf(L) = "free")

\* a load holds db_lock and blacklist_lock at once while a lookup waits for
\* blacklist_lock and the stats saver, started by a request, for db_lock
C25_Witness ==
    /\ Holds("a") = {"db_lock", "blacklist_lock"}
    /\ WaitsFor("b") = "blacklist_lock"
    /\ WaitsFor("saver") = "db_lock"
    /\ req[1].pc = "done"

====
